---- MODULE Spec2Model ----
(***************************************************************************)
(* Alert-to-notification pipeline of flights-tracker.                      *)
(*                                                                         *)
(*   SpecFetch  - src/core/alert-flight-fetcher.ts: the per-alert fetch    *)
(*                fan-out of fetchFlightDataForAlerts.                     *)
(*   SpecRender - lib/notifications: context, blueprint generation and     *)
(*                the daily / price-drop templates.                        *)
(*   SpecPass   - scripts/generate-email-to-user.ts: one processing pass   *)
(*                (expiry partition, status updates, dedup check, fetch).  *)
(*   SpecTranslate - convertAlertFiltersToFlightFilters and                *)
(*                filterFlightsByAlertCriteria called on their own.        *)
(*   SpecSend   - lib/notifications/send-notification.ts: one call of      *)
(*                sendNotificationEmail.                                   *)
(*   SpecTemplate - the templates, the context builders and                *)
(*                renderSectionsFromBlueprint called on their own.         *)
(*   SpecAgent  - the planner agent's tool loop and its stop condition.    *)
(*   SpecScene  - ai/tools/control-scene.ts: one call of execute.          *)
(*   SpecTester - fetchFlightDataVerbose of the script next to the         *)
(*                batch fetch, on the same alerts and answers.             *)
(*                                                                         *)
(* Optional values are sequences of length 0 (absent) or 1 (present).      *)
(* Calendar days and clock readings are integers.                          *)
(***************************************************************************)
EXTENDS Integers, Sequences, FiniteSets, TLC

VARIABLES
    \* ---- SpecFetch ----
    tz,                \* sign of the process's UTC offset: -1, 0, 1
    today,             \* local calendar day of new Date()
    maxFlights,        \* argument of fetchFlightDataForAlerts
    alerts,            \* argument of fetchFlightDataForAlerts
    collaborator,      \* per alert: what parse/search will do for it
    fetchPromises,     \* per alert: "none" | "searching" | "settled" | "rejected"
    results,           \* per alert: <<>> (null) or <<AlertWithFlights>>
    searchCalls,       \* indices of alerts for which searchFlights was called
    batch,             \* "idle" | "awaiting" | "resolved" | "rejected"
    successfulResults, \* value fetchFlightDataForAlerts resolved to
    settleOrder,       \* indices of the alerts in the order their promises settled
    failureLog         \* indices of the alerts logger.error was called for

fetchVars == <<tz, today, maxFlights, alerts, collaborator, fetchPromises,
               results, searchCalls, batch, successfulResults, settleOrder, failureLog>>

VARIABLES
    \* ---- SpecRender ----
    payload,           \* NotificationEmailPayload handed to the pipeline
    aiKey,             \* env.AI_GATEWAY_API_KEY is set
    generation,        \* what generateObject will do: kind and returned object
    renderPc,          \* position of render...EmailWithAI
    context,           \* result of build...BlueprintContext
    generateCalls,     \* number of generateObject calls made
    blueprint,         \* settled generate...Blueprint promise: [state, value]
    rendered           \* outcome of the pipeline: [threw, via, email]

renderVars == <<payload, aiKey, generation, renderPc, context, generateCalls,
                blueprint, rendered>>

VARIABLES
    \* ---- SpecPass ----
    clock,             \* current time, in hours
    store,             \* alert table: id -> [id, type, status, alertEnd]
    notificationLog,   \* notification log: set of [alertId, at]
    passPc,            \* position of main
    runStart,          \* clock reading when the run started
    now,               \* `now` read by filterAndUpdateExpiredAlerts
    dailyAlerts,       \* main: active daily alerts fetched for the user
    activeAlerts,      \* filterAndUpdateExpiredAlerts: active partition
    expiredAlerts,     \* filterAndUpdateExpiredAlerts: expired partition
    updates,           \* per expired alert id: "pending" | "done" | "failed"
    nonExpiredAlerts,  \* main: result of filterAndUpdateExpiredAlerts
    dedup,             \* per checked alert id: [state, processed]
    dedupAt,           \* per checked alert id: clock reading of its evaluation
    completionOrder,   \* alert ids in the order their dedup checks settled
    alertsToProcess,   \* main: result of filterUnprocessedAlerts
    alertsWithFlights, \* main: result of fetchFlightDataVerbose
    emailPayload,      \* main: <<>> or <<payload>>
    statusWrites       \* status writes issued to the store: set of [id, from, to]

passVars == <<clock, store, notificationLog, passPc, runStart, now, dailyAlerts,
              activeAlerts, expiredAlerts, updates, nonExpiredAlerts, dedup, dedupAt,
              completionOrder, alertsToProcess, alertsWithFlights, emailPayload,
              statusWrites>>

VARIABLES
    \* ---- SpecTranslate ----
    zone,              \* sign of the process's UTC offset: -1, 0, 1
    systemDay,         \* local calendar day the system clock shows
    inputFilters,      \* AlertFilters under translation and filtering
    inputFlights,       \* FlightOption[] handed to filterFlightsByAlertCriteria
    translations,      \* calls of the translator so far: [day, query]
    filterResult       \* <<>> or <<result of filterFlightsByAlertCriteria>>

unitVars == <<zone, systemDay, inputFilters, inputFlights, translations, filterResult>>

VARIABLES
    \* ---- SpecSend ----
    request,           \* NotificationSendRequest: [payload, recipient]
    sendEnv,           \* environment: [key, generation, fromEmail]
    transport,         \* what sendWithResend will do: [kind, result]
    sendPc,            \* position of sendNotificationEmail
    content,           \* <<>> or <<email built by buildEmailContent>>
    transportCalls,    \* arguments of the sendWithResend calls made, in order
    sendOutcome        \* settled sendNotificationEmail promise: [state, value]

sendVars == <<request, sendEnv, transport, sendPc, content, transportCalls, sendOutcome>>

VARIABLES
    \* ---- SpecTemplate ----
    tplPayload,        \* payload handed to a template or to the context builder
    tplBlueprint,      \* blueprint handed to the template
    tplEmail,          \* <<>> or <<outcome of render...Email(payload, { blueprint })>>
    tplContext,        \* <<>> or <<context built from the payload>>
    tplSections        \* <<>> or <<what renderSectionsFromBlueprint built>>

tplVars == <<tplPayload, tplBlueprint, tplEmail, tplContext, tplSections>>

VARIABLES
    \* ---- SpecAgent ----
    agentStatus,       \* "idle" | "running" | "stopped"
    stepCount,         \* steps the agent loop has completed
    toolCalls          \* per tool: calls the model has made so far

agentVars == <<agentStatus, stepCount, toolCalls>>

VARIABLES
    \* ---- SpecScene ----
    sceneToday,        \* local calendar day of startOfToday()
    sceneParams,       \* ControlSceneParams handed to execute
    sceneResult        \* <<>> or <<outcome of execute: [threw, value]>>

sceneVars == <<sceneToday, sceneParams, sceneResult>>

VARIABLES
    \* ---- SpecTester ----
    verboseResults     \* <<>> or <<value fetchFlightDataVerbose resolved to>>

testerVars == <<verboseResults>>

coreVars == <<fetchVars, renderVars, passVars, unitVars, sendVars>>

extVars == <<tplVars, agentVars, sceneVars, testerVars>>

\* what the actions of one of these specifications leave alone
tplOthers == <<coreVars, agentVars, sceneVars, testerVars>>
agentOthers == <<coreVars, tplVars, sceneVars, testerVars>>
sceneOthers == <<coreVars, tplVars, agentVars, testerVars>>
testerOthers == <<coreVars, tplVars, agentVars, sceneVars>>

vars == <<coreVars, extVars>>

-----------------------------------------------------------------------------
(* Bounds *)
MaxAlerts == 3
MaxDay == 3
MaxPayloadFlights == 5
MaxStoredAlerts == 2
MaxClock == 24
MaxTranslations == 2
SceneYear == 3          \* days that stand for the year of addYears(today, 1)

-----------------------------------------------------------------------------
(* Generic helpers *)
Has(opt) == opt # <<>>
Val(opt) == opt[1]
Some(v) == <<v>>
Absent == <<>>

Range(s) == {s[i] : i \in DOMAIN s}

RECURSIVE SeqsUpTo(_, _)
SeqsUpTo(S, n) ==
    IF n = 0 THEN {<<>>}
    ELSE LET shorter == SeqsUpTo(S, n - 1)
         IN shorter \cup {Append(s, x) : s \in {t \in shorter : Len(t) = n - 1}, x \in S}

Take(s, n) == SubSeq(s, 1, IF Len(s) < n THEN Len(s) ELSE n)

-----------------------------------------------------------------------------
(* Dates.  A stored date string "YYYY-MM-DD" is the integer of its calendar *)
(* day.  new Date(str) is UTC midnight of that day; setHours(0,0,0,0) moves *)
(* it to the local midnight at or before it, which is the previous local    *)
(* day when the process runs behind UTC.  toISOString().split("T")[0] of a  *)
(* local midnight is the previous UTC day when the process runs ahead of    *)
(* UTC.                                                                      *)
LocalDayOf(dateStr, offsetSign) == IF offsetSign < 0 THEN dateStr - 1 ELSE dateStr

IsoDateOfLocalMidnight(localDay, offsetSign) ==
    IF offsetSign > 0 THEN localDay - 1 ELSE localDay

tomorrowStr(todayDay, offsetSign) == IsoDateOfLocalMidnight(todayDay + 1, offsetSign)

-----------------------------------------------------------------------------
(* Filter Translator: convertAlertFiltersToFlightFilters                    *)

stopsMap(stops) ==
    CASE stops = "ANY" -> "ANY"
      [] stops = "NONSTOP" -> "NON_STOP"
      [] stops = "ONE_STOP" -> "ONE_STOP_OR_FEWER"
      [] stops = "TWO_STOPS" -> "TWO_OR_FEWER_STOPS"
      [] OTHER -> "ANY"

seatTypeMap(class) ==
    CASE class = "ECONOMY" -> "ECONOMY"
      [] class = "PREMIUM_ECONOMY" -> "PREMIUM_ECONOMY"
      [] class = "BUSINESS" -> "BUSINESS"
      [] class = "FIRST" -> "FIRST"
      [] OTHER -> "ECONOMY"

\* filters?.x : absent when the criteria bundle itself is absent
FilterField(alertFilters, name) ==
    IF Has(alertFilters.filters) THEN Val(alertFilters.filters)[name] ELSE Absent

dateRangeExpired(alertFilters, todayDay, offsetSign) ==
    LET dateTo == FilterField(alertFilters, "dateTo")
    IN Has(dateTo) /\ LocalDayOf(Val(dateTo), offsetSign) < todayDay

effectiveDateFrom(alertFilters, todayDay, offsetSign) ==
    LET dateFrom == FilterField(alertFilters, "dateFrom")
    IN IF Has(dateFrom)
       THEN IF LocalDayOf(Val(dateFrom), offsetSign) < todayDay
            THEN tomorrowStr(todayDay, offsetSign)
            ELSE Val(dateFrom)
       ELSE tomorrowStr(todayDay, offsetSign)

\* <<>> is the null return; otherwise <<FlightFiltersInput>>
convertAlertFiltersToFlightFilters(alertFilters, todayDay, offsetSign) ==
    IF dateRangeExpired(alertFilters, todayDay, offsetSign)
    THEN Absent
    ELSE LET from == effectiveDateFrom(alertFilters, todayDay, offsetSign)
             dateTo == FilterField(alertFilters, "dateTo")
             stops == FilterField(alertFilters, "stops")
             class == FilterField(alertFilters, "class")
             airlines == FilterField(alertFilters, "airlines")
             price == FilterField(alertFilters, "price")
         IN Some([tripType |-> "ONE_WAY",
                  segments |-> <<[origin |-> alertFilters.route.from,
                                  destination |-> alertFilters.route.to,
                                  departureDate |-> from]>>,
                  dateRange |-> [from |-> from,
                                 to |-> IF Has(dateTo) THEN Val(dateTo) ELSE from],
                  seatType |-> IF Has(class) THEN seatTypeMap(Val(class)) ELSE "ECONOMY",
                  stops |-> IF Has(stops) THEN stopsMap(Val(stops)) ELSE "ANY",
                  airlines |-> IF Has(airlines) /\ Len(Val(airlines)) > 0
                               THEN airlines ELSE Absent,
                  priceLimit |-> IF Has(price) /\ Val(price) # 0
                                 THEN Some([amount |-> Val(price), currency |-> "USD"])
                                 ELSE Absent])

-----------------------------------------------------------------------------
(* Result Filter: filterFlightsByAlertCriteria                              *)

toUpperCase(code) ==
    CASE code = "aa" -> "AA"
      [] code = "ua" -> "UA"
      [] code = "dl" -> "DL"
      [] OTHER -> code

\* a price test that also drops a flight priced exactly at the ceiling
priceOk_DropsAtCeiling(filters, flight) ==
    ~(Has(filters.price) /\ Val(filters.price) # 0 /\ flight.totalPrice >= Val(filters.price))

priceOk(filters, flight) ==
    ~(Has(filters.price) /\ Val(filters.price) # 0 /\ flight.totalPrice > Val(filters.price))

airlineOk(filters, flight) ==
    IF Has(filters.airlines) /\ Len(Val(filters.airlines)) > 0
    THEN LET allowedAirlines == {toUpperCase(c) : c \in Range(Val(filters.airlines))}
         IN \E si \in DOMAIN flight.slices :
               \E li \in DOMAIN flight.slices[si].legs :
                  flight.slices[si].legs[li].airlineCode \in allowedAirlines
    ELSE TRUE

\* Number.POSITIVE_INFINITY for any other tier: no slice is over it
stopsOk(filters, flight) ==
    IF Has(filters.stops)
    THEN LET tier == Val(filters.stops)
         IN \A si \in DOMAIN flight.slices :
               CASE tier = "NONSTOP" -> flight.slices[si].stops <= 0
                 [] tier = "ONE_STOP" -> flight.slices[si].stops <= 1
                 [] tier = "TWO_STOPS" -> flight.slices[si].stops <= 2
                 [] OTHER -> TRUE
    ELSE TRUE

flightMatches(filters, flight) ==
    priceOk(filters, flight) /\ airlineOk(filters, flight) /\ stopsOk(filters, flight)

filterFlightsByAlertCriteria(flights, alertFilters) ==
    IF ~Has(alertFilters.filters)
    THEN flights
    ELSE LET filters == Val(alertFilters.filters)
             keep(f) == flightMatches(filters, f)
         IN SelectSeq(flights, keep)

-----------------------------------------------------------------------------
(* Alert Batch Processor: fetchFlightsForAlert, fetchFlightDataForAlerts.   *)
(* parseFlightFiltersInput and searchFlights are collaborators: what they   *)
(* do for an alert is that alert's entry of `collaborator`.                 *)

Null == Absent

\* a fetchFlightsForAlert that goes on to validation and search with a null
\* query
fetchFlightsForAlertCall_SearchesExpired(alert, collab, todayDay, offsetSign) ==
    IF collab.kind = "parseThrows"
    THEN [state |-> "settled", value |-> Null, searched |-> FALSE, logged |-> TRUE]
    ELSE [state |-> "searching", value |-> Null, searched |-> TRUE, logged |-> FALSE]

\* the synchronous part of fetchFlightsForAlert, up to `await searchFlights`
fetchFlightsForAlertCall(alert, collab, todayDay, offsetSign) ==
    LET flightFilters == convertAlertFiltersToFlightFilters(alert.filters, todayDay, offsetSign)
    IN IF ~Has(flightFilters)
       THEN \* return null, outside the catch block
            [state |-> "settled", value |-> Null, searched |-> FALSE, logged |-> FALSE]
       ELSE IF collab.kind = "parseThrows"
            THEN \* caught by the catch block: logged, resolves to null
                 [state |-> "settled", value |-> Null, searched |-> FALSE, logged |-> TRUE]
            ELSE [state |-> "searching", value |-> Null, searched |-> TRUE, logged |-> FALSE]

\* the same without the try/catch of lines 146 and 174-180
fetchFlightsForAlertResume_NoCatch(alert, collab, limit) ==
    IF collab.kind = "searchThrows"
    THEN [state |-> "rejected", value |-> Null, logged |-> FALSE]
    ELSE [state |-> "settled", logged |-> FALSE,
          value |-> Some([alert |-> alert,
                          flights |-> filterFlightsByAlertCriteria(
                                          Take(collab.flights, limit), alert.filters)])]

\* the same with the criteria filter applied before the cap
fetchFlightsForAlertResume_FilterThenCap(alert, collab, limit) ==
    IF collab.kind = "searchThrows"
    THEN [state |-> "settled", value |-> Null, logged |-> TRUE]
    ELSE [state |-> "settled", logged |-> FALSE,
          value |-> Some([alert |-> alert,
                          flights |-> Take(filterFlightsByAlertCriteria(
                                               collab.flights, alert.filters), limit)])]

\* the rest of fetchFlightsForAlert, once searchFlights has settled
fetchFlightsForAlertResume(alert, collab, limit) ==
    IF collab.kind = "searchThrows"
    THEN \* caught by the catch block: logged, resolves to null
         [state |-> "settled", value |-> Null, logged |-> TRUE]
    ELSE LET limitedFlights == Take(collab.flights, limit)
             matchingFlights == filterFlightsByAlertCriteria(limitedFlights, alert.filters)
         IN [state |-> "settled", logged |-> FALSE,
             value |-> Some([alert |-> alert, flights |-> matchingFlights])]

\* a Promise.all that would hand the values over in the order they settled
promiseAll_CompletionOrder(values, order) ==
    [k \in 1..Len(order) |-> values[order[k]]]

\* await Promise.all(fetchPromises): the values at the positions of their
\* promises, whatever the order the promises settled in
promiseAll(values, order) == values

\* a filter that drops only the null results
keepSuccessful_KeepEmpty(rs) ==
    LET present == SelectSeq(rs, LAMBDA r : Has(r))
    IN [k \in DOMAIN present |-> Val(present[k])]

\* results.filter(result !== null && result.flights.length > 0)
RECURSIVE keepSuccessful(_)
keepSuccessful(rs) ==
    IF rs = <<>> THEN <<>>
    ELSE (IF Has(Head(rs)) /\ Len(Val(Head(rs)).flights) > 0
          THEN <<Val(Head(rs))>> ELSE <<>>) \o keepSuccessful(Tail(rs))

\* convertAlertToDescriptor without the airport names, which come from the
\* airport lookup
convertAlertToDescriptor(alert) ==
    LET filters == alert.filters.filters
        given(field) == Has(filters) /\ Has(Val(filters)[field])
    IN [id |-> alert.id,
        stops |-> IF given("stops")
                  THEN LET tier == Val(Val(filters).stops)
                       IN Some(IF tier = "NONSTOP" THEN "Nonstop"
                               ELSE IF tier = "ONE_STOP" THEN "1 stop max"
                               ELSE IF tier = "TWO_STOPS" THEN "2 stops max"
                               ELSE "Any stops")
                  ELSE Absent,
        airlines |-> IF given("airlines") /\ Len(Val(Val(filters).airlines)) > 0
                     THEN Val(filters).airlines ELSE Absent,
        priceLimit |-> IF given("price") /\ Val(Val(filters).price) # 0
                       THEN Some([amount |-> Val(Val(filters).price), currency |-> "USD"])
                       ELSE Absent]

\* formatAlertsForEmail: Promise.all over the map of alertsWithFlights
formatAlertsForEmail(withFlights) ==
    [i \in DOMAIN withFlights |->
        [alert |-> convertAlertToDescriptor(withFlights[i].alert),
         flights |-> withFlights[i].flights]]

(* Inputs *)
Flight(price, stops, code) ==
    [totalPrice |-> price, currency |-> "USD",
     slices |-> <<[stops |-> stops, legs |-> <<[airlineCode |-> code]>>]>>]

SampleFlights == <<Flight(250, 0, "AA"), Flight(280, 0, "UA"), Flight(350, 1, "AA")>>

Criteria(dateFrom, dateTo, price, stops, airlines) ==
    Some([dateFrom |-> dateFrom, dateTo |-> dateTo, price |-> price, stops |-> stops,
          airlines |-> airlines, class |-> Absent])

AlertFiltersOf(criteria) == [route |-> [from |-> "SFO", to |-> "JFK"], filters |-> criteria]

Returns(flights) == [kind |-> "returns", flights |-> flights]
SearchThrows == [kind |-> "searchThrows", flights |-> <<>>]
ParseThrows == [kind |-> "parseThrows", flights |-> <<>>]

\* (alert filters, collaborator behaviour) pairs an alert of the batch is drawn from
AlertCases ==
    { <<AlertFiltersOf(Absent), Returns(SampleFlights)>>,
      <<AlertFiltersOf(Criteria(Some(0), Absent, Some(300), Some("NONSTOP"), Absent)),
        Returns(SampleFlights)>>,
      <<AlertFiltersOf(Criteria(Some(MaxDay), Some(MaxDay), Absent, Absent, Some(<<"dl">>))),
        Returns(SampleFlights)>>,
      <<AlertFiltersOf(Criteria(Some(0), Some(0), Absent, Absent, Absent)),
        Returns(SampleFlights)>>,
      <<AlertFiltersOf(Absent), SearchThrows>>,
      <<AlertFiltersOf(Criteria(Absent, Absent, Some(300), Absent, Absent)), ParseThrows>>,
      <<AlertFiltersOf(Criteria(Absent, Absent, Absent, Absent, Some(<<"aa">>))),
        Returns(SampleFlights)>>,
      <<AlertFiltersOf(Criteria(Some(1), Some(MaxDay), Some(300), Absent, Absent)),
        Returns(SampleFlights)>> }

MaxFlightsChoices == {2, 5}

FetchInit ==
    /\ tz \in {-1, 0, 1}
    /\ today = 2
    /\ maxFlights \in MaxFlightsChoices
    /\ \E cases \in SeqsUpTo(AlertCases, MaxAlerts) :
         /\ alerts = [i \in DOMAIN cases |-> [id |-> i, filters |-> cases[i][1]]]
         /\ collaborator = [i \in DOMAIN cases |-> cases[i][2]]
    /\ fetchPromises = [i \in DOMAIN alerts |-> "none"]
    /\ results = [i \in DOMAIN alerts |-> Null]
    /\ searchCalls = {}
    /\ batch = "idle"
    /\ successfulResults = <<>>
    /\ settleOrder = <<>>
    /\ failureLog = {}

\* fetchFlightDataForAlerts up to `await Promise.all(fetchPromises)`: alerts.map
\* runs every fetchFlightsForAlert to its first suspension, in input order
CallFetchFlightDataForAlerts ==
    /\ batch = "idle"
    /\ IF Len(alerts) = 0
       THEN /\ batch' = "resolved"
            /\ successfulResults' = <<>>
            /\ UNCHANGED <<fetchPromises, results, searchCalls, settleOrder, failureLog>>
       ELSE LET started == [i \in DOMAIN alerts |->
                              fetchFlightsForAlertCall(alerts[i], collaborator[i], today, tz)]
            IN /\ fetchPromises' = [i \in DOMAIN alerts |-> started[i].state]
               /\ results' = [i \in DOMAIN alerts |-> started[i].value]
               /\ searchCalls' = {i \in DOMAIN alerts : started[i].searched}
               /\ failureLog' = {i \in DOMAIN alerts : started[i].logged}
               /\ settleOrder' = SelectSeq([i \in DOMAIN alerts |-> i],
                                           LAMBDA i : started[i].state = "settled")
               /\ batch' = "awaiting"
               /\ UNCHANGED successfulResults
    /\ UNCHANGED <<tz, today, maxFlights, alerts, collaborator>>
    /\ UNCHANGED <<renderVars, passVars, unitVars, sendVars, extVars>>

\* searchFlights settles for alert i; the searches settle in any order
SearchSettles(i) ==
    /\ batch = "awaiting"
    /\ fetchPromises[i] = "searching"
    /\ LET r == fetchFlightsForAlertResume(alerts[i], collaborator[i], maxFlights)
       IN /\ fetchPromises' = [fetchPromises EXCEPT ![i] = r.state]
          /\ results' = [results EXCEPT ![i] = r.value]
          /\ failureLog' = IF r.logged THEN failureLog \cup {i} ELSE failureLog
    /\ settleOrder' = Append(settleOrder, i)
    /\ UNCHANGED <<tz, today, maxFlights, alerts, collaborator, searchCalls, batch,
                   successfulResults>>
    /\ UNCHANGED <<renderVars, passVars, unitVars, sendVars, extVars>>

\* Promise.all settles: rejected as soon as one promise is, resolved when all are
PromiseAllSettles ==
    /\ batch = "awaiting"
    /\ \/ \E i \in DOMAIN alerts : fetchPromises[i] = "rejected"
       \/ \A i \in DOMAIN alerts : fetchPromises[i] = "settled"
    /\ IF \E i \in DOMAIN alerts : fetchPromises[i] = "rejected"
       THEN batch' = "rejected" /\ UNCHANGED successfulResults
       ELSE /\ batch' = "resolved"
            /\ successfulResults' = keepSuccessful(promiseAll(results, settleOrder))
    /\ UNCHANGED <<tz, today, maxFlights, alerts, collaborator, fetchPromises, results,
                   searchCalls, settleOrder, failureLog>>
    /\ UNCHANGED <<renderVars, passVars, unitVars, sendVars, extVars>>

FetchNext ==
    \/ CallFetchFlightDataForAlerts
    \/ \E i \in DOMAIN alerts : SearchSettles(i)
    \/ PromiseAllSettles

-----------------------------------------------------------------------------
(* Claims about the batch fetch *)

\* the collaborator (search or filter validation) throws for alert i
CollaboratorThrowsFor(i) ==
    /\ Has(convertAlertFiltersToFlightFilters(alerts[i].filters, today, tz))
    /\ collaborator[i].kind \in {"searchThrows", "parseThrows"}

\* what fetching alert i on its own resolves to
EntryAlone(i) ==
    LET c == fetchFlightsForAlertCall(alerts[i], collaborator[i], today, tz)
    IN IF c.state = "searching"
       THEN fetchFlightsForAlertResume(alerts[i], collaborator[i], maxFlights).value
       ELSE c.value

\* C1: batch fault isolation. fetchFlightDataForAlerts never rejects and never
\* hangs; once resolved it holds no entry for an alert whose search or filter
\* validation threw, and for the other alerts exactly the entries, in input
\* order, that each of them yields when fetched on its own.
C1_BatchFaultIsolation ==
    /\ batch # "rejected"
    /\ \A i \in DOMAIN alerts : fetchPromises[i] # "rejected"
    /\ batch \in {"idle", "awaiting"} => ENABLED FetchNext
    /\ batch = "resolved" =>
         /\ \A k \in DOMAIN successfulResults :
               ~CollaboratorThrowsFor(successfulResults[k].alert.id)
         /\ successfulResults =
               keepSuccessful([i \in DOMAIN alerts |->
                                  IF CollaboratorThrowsFor(i) THEN Null ELSE EntryAlone(i)])

\* three alerts, the search throws for one, validation for another, and the
\* third has its entry in the resolved batch
C1_Witness ==
    /\ batch = "resolved"
    /\ Len(alerts) = 3
    /\ \E i, j, k \in DOMAIN alerts :
         /\ collaborator[i].kind = "searchThrows" /\ i \in searchCalls
         /\ collaborator[j].kind = "parseThrows" /\ CollaboratorThrowsFor(j)
         /\ \E n \in DOMAIN successfulResults : successfulResults[n].alert.id = k

-----------------------------------------------------------------------------
(* The translator and the result filter on their own: calls of              *)
(* convertAlertFiltersToFlightFilters at the days the system clock shows,    *)
(* and one call of filterFlightsByAlertCriteria.                             *)

DateChoices == {Absent} \cup {Some(d) : d \in 1..MaxDay}

FilterChoices ==
    {AlertFiltersOf(Absent)} \cup
    { AlertFiltersOf(Criteria(dateFrom, dateTo, price, stops, airlines)) :
        dateFrom \in DateChoices, dateTo \in DateChoices,
        price \in {Absent, Some(300)},
        stops \in {Absent, Some("NONSTOP"), Some("ONE_STOP"), Some("TWO_STOPS"), Some("ANY")},
        airlines \in {Absent, Some(<<"aa">>), Some(<<"DL", "UA">>)} }

TwoSliceFlight(price, outStops, backStops, outCode, backCode) ==
    [totalPrice |-> price, currency |-> "USD",
     slices |-> <<[stops |-> outStops, legs |-> <<[airlineCode |-> outCode]>>],
                  [stops |-> backStops, legs |-> <<[airlineCode |-> backCode]>>]>>]

FlightListChoices ==
    { <<>>,
      SampleFlights,
      <<Flight(300, 0, "DL"), Flight(301, 2, "AA"), TwoSliceFlight(200, 0, 2, "UA", "AA")>>,
      <<Flight(120, 3, "AA"), TwoSliceFlight(300, 1, 1, "DL", "AA"), Flight(90, 0, "B6")>>,
      <<Flight(200, 0, "aa"), Flight(210, 0, "AA"), TwoSliceFlight(220, 0, 0, "B6", "ua")>> }

TranslateInit ==
    /\ zone \in {-1, 0, 1}
    /\ systemDay = 2
    /\ inputFilters \in FilterChoices
    /\ inputFlights \in FlightListChoices
    /\ translations = <<>>
    /\ filterResult = <<>>

\* one call of convertAlertFiltersToFlightFilters(alert.filters): it reads the
\* system clock itself
Translate ==
    /\ Len(translations) < MaxTranslations
    /\ translations' = Append(translations,
           [day |-> systemDay,
            query |-> convertAlertFiltersToFlightFilters(inputFilters, systemDay, zone)])
    /\ UNCHANGED <<zone, systemDay, inputFilters, inputFlights, filterResult>>
    /\ UNCHANGED <<fetchVars, renderVars, passVars, sendVars, extVars>>

\* midnight passes on the system clock
DayPasses ==
    /\ systemDay < MaxDay
    /\ systemDay' = systemDay + 1
    /\ UNCHANGED <<zone, inputFilters, inputFlights, translations, filterResult>>
    /\ UNCHANGED <<fetchVars, renderVars, passVars, sendVars, extVars>>

\* one call of filterFlightsByAlertCriteria(flights, alert.filters)
FilterFlights ==
    /\ ~Has(filterResult)
    /\ filterResult' = Some(filterFlightsByAlertCriteria(inputFlights, inputFilters))
    /\ UNCHANGED <<zone, systemDay, inputFilters, inputFlights, translations>>
    /\ UNCHANGED <<fetchVars, renderVars, passVars, sendVars, extVars>>

TranslateNext ==
    \/ Translate
    \/ DayPasses
    \/ FilterFlights

-----------------------------------------------------------------------------
(* Properties of the translator and the result filter (SpecTranslate) *)

\* the start date the translation made on `day` should carry: dateFrom when
\* it is on or after that day, the day after it otherwise
AdjustedStart(filters, day) ==
    LET dateFrom == FilterField(filters, "dateFrom")
    IN IF Has(dateFrom) /\ Val(dateFrom) >= day THEN Val(dateFrom) ELSE day + 1

WindowElapsed(filters, day) ==
    LET dateTo == FilterField(filters, "dateTo")
    IN Has(dateTo) /\ Val(dateTo) < day

\* C11: Date adjustment.  For every alert filter and every day `today` on
\* which it is translated, the translator returns null when dateTo is before
\* today; otherwise the effective start date is dateFrom unchanged when
\* dateFrom is on or after today and tomorrow (today plus one day) when
\* dateFrom is absent or before today.
C11_DateAdjustment ==
    \A k \in DOMAIN translations :
        LET call == translations[k]
        IN IF WindowElapsed(inputFilters, call.day)
           THEN ~Has(call.query)
           ELSE /\ Has(call.query)
                /\ Val(call.query).segments[1].departureDate =
                      AdjustedStart(inputFilters, call.day)

PriceWithin(criteria, flight) ==
    Has(criteria.price) => flight.totalPrice <= Val(criteria.price)

AirlineAllowed(criteria, flight) ==
    (Has(criteria.airlines) /\ Len(Val(criteria.airlines)) > 0)
        => \E si \in DOMAIN flight.slices : \E li \in DOMAIN flight.slices[si].legs :
              \E k \in DOMAIN Val(criteria.airlines) :
                 flight.slices[si].legs[li].airlineCode = toUpperCase(Val(criteria.airlines)[k])

StopsCeiling(tier) ==
    CASE tier = "NONSTOP" -> <<0>>
      [] tier = "ONE_STOP" -> <<1>>
      [] tier = "TWO_STOPS" -> <<2>>
      [] OTHER -> <<>>

StopsWithin(criteria, flight) ==
    (Has(criteria.stops) /\ Has(StopsCeiling(Val(criteria.stops))))
        => \A si \in DOMAIN flight.slices :
              flight.slices[si].stops <= Val(StopsCeiling(Val(criteria.stops)))

SatisfiesAll(criteria, flight) ==
    PriceWithin(criteria, flight) /\ AirlineAllowed(criteria, flight)
    /\ StopsWithin(criteria, flight)

ScenarioFilters(day) ==
    /\ Has(inputFilters.filters)
    /\ LET c == Val(inputFilters.filters)
       IN /\ c.price = Some(300)
          /\ c.stops = Some("NONSTOP")
          /\ Has(c.dateFrom) /\ Val(c.dateFrom) < day
          /\ ~Has(c.dateTo)
          /\ ~Has(c.airlines)

\* C14: End-to-end scenario.  For an alert with price ceiling 300 and stops
\* NONSTOP whose dateFrom is in the past and which has no dateTo, the
\* translation is a query that starts tomorrow, and of the three flights
\* priced 250, 280 and 350 with stops 0, 0 and 1 the Result Filter yields only
\* the flight priced 250.
C14_EndToEndScenario ==
    /\ \A k \in DOMAIN translations :
          ScenarioFilters(translations[k].day) =>
              /\ Has(translations[k].query)
              /\ Val(translations[k].query).segments[1].departureDate
                     = translations[k].day + 1
    /\ (ScenarioFilters(systemDay) /\ inputFlights = SampleFlights /\ Has(filterResult))
           => Val(filterResult) = <<Flight(250, 0, "AA")>>

\* C17: The Filter Translator is a pure function of its inputs and an
\* injected reference time.  The translator's only input is the alert's
\* filters, so two translations of the same filters return the same result,
\* whatever the system clock reads at the time of each call.
C17_TranslatorPure ==
    \A j, k \in DOMAIN translations : translations[j].query = translations[k].query

\* some leg of the flight carries a code of the allow-set, letter case aside
AirlineAllowedAnyCase(criteria, flight) ==
    (Has(criteria.airlines) /\ Len(Val(criteria.airlines)) > 0)
        => \E si \in DOMAIN flight.slices : \E li \in DOMAIN flight.slices[si].legs :
              \E k \in DOMAIN Val(criteria.airlines) :
                 toUpperCase(flight.slices[si].legs[li].airlineCode)
                     = toUpperCase(Val(criteria.airlines)[k])

\* C24: Airline matching is case-insensitive on both sides.  A flight passes
\* the airline test of the Result Filter exactly when some leg of some slice
\* has an airline code equal, ignoring letter case, to a code of the
\* allow-set: the filter keeps the flights that are within the price ceiling
\* and the stops tier and have such a leg.
C24_AirlineMatchAnyCase ==
    (Has(filterResult) /\ Has(inputFilters.filters)) =>
        Val(filterResult) =
            SelectSeq(inputFlights,
                      LAMBDA f : /\ PriceWithin(Val(inputFilters.filters), f)
                                 /\ AirlineAllowedAnyCase(Val(inputFilters.filters), f)
                                 /\ StopsWithin(Val(inputFilters.filters), f))

\* the stored window is in order: dateFrom, when both are given, is not
\* after dateTo
StoredWindowOrdered(filters) ==
    LET dateFrom == FilterField(filters, "dateFrom")
        dateTo == FilterField(filters, "dateTo")
    IN (Has(dateFrom) /\ Has(dateTo)) => Val(dateFrom) <= Val(dateTo)

\* C28: Translated date range is well-formed.  For every alert filter whose
\* stored dateFrom is not after its dateTo and every reference day, whenever
\* the translator returns a query its dateRange satisfies from <= to, and the
\* single segment's departureDate equals dateRange.from and lies on or after
\* today (also when dateFrom is before today and dateTo equals today).
C28_DateRangeWellFormed ==
    StoredWindowOrdered(inputFilters) =>
        \A k \in DOMAIN translations :
            Has(translations[k].query) =>
                LET query == Val(translations[k].query)
                IN /\ query.dateRange.from <= query.dateRange.to
                   /\ Len(query.segments) = 1
                   /\ query.segments[1].departureDate = query.dateRange.from
                   /\ query.segments[1].departureDate >= translations[k].day

-----------------------------------------------------------------------------
(* scripts/generate-email-to-user.ts: fetchFlightDataVerbose, run on the    *)
(* alerts, the day and the collaborator answers of the batch fetch          *)

\* the script's own convertAlertFiltersToFlightFilters: no expiry test and no
\* date adjustment.  isoToday is new Date().toISOString().split("T")[0]
scriptConvertAlertFiltersToFlightFilters(alertFilters, isoToday) ==
    LET dateFrom == FilterField(alertFilters, "dateFrom")
        stops == FilterField(alertFilters, "stops")
        class == FilterField(alertFilters, "class")
        airlines == FilterField(alertFilters, "airlines")
        price == FilterField(alertFilters, "price")
        departureDate == IF Has(dateFrom) THEN Val(dateFrom) ELSE isoToday
    IN [tripType |-> "ONE_WAY",
        segments |-> <<[origin |-> alertFilters.route.from,
                        destination |-> alertFilters.route.to,
                        departureDate |-> dateFrom]>>,
        dateRange |-> [from |-> departureDate, to |-> departureDate],
        seatType |-> IF Has(class) THEN seatTypeMap(Val(class)) ELSE "ECONOMY",
        stops |-> IF Has(stops) THEN stopsMap(Val(stops)) ELSE "ANY",
        airlines |-> IF Has(airlines) /\ Len(Val(airlines)) > 0 THEN airlines ELSE Absent,
        priceLimit |-> IF Has(price) /\ Val(price) # 0
                       THEN Some([amount |-> Val(price), currency |-> "USD"])
                       ELSE Absent]

\* modifiedAlert of one loop iteration: <<>> when the iteration ends in
\* `continue` before the try block
modifiedAlert(alert, todayDay, offsetSign) ==
    LET dateFrom == FilterField(alert.filters, "dateFrom")
        dateTo == FilterField(alert.filters, "dateTo")
    IN IF ~Has(dateFrom) THEN Absent
       ELSE IF Has(dateTo) /\ LocalDayOf(Val(dateTo), offsetSign) < todayDay THEN Absent
       ELSE IF LocalDayOf(Val(dateFrom), offsetSign) < todayDay /\ Has(dateTo)
            THEN Some([alert EXCEPT !.filters.filters =
                          Some([Val(alert.filters.filters) EXCEPT
                                   !.dateFrom = Some(tomorrowStr(todayDay, offsetSign))])])
       ELSE IF LocalDayOf(Val(dateFrom), offsetSign) < todayDay THEN Absent
       ELSE Some(alert)

\* one iteration of the loop: <<>> when nothing is pushed, else the pushed entry
verboseIteration(alert, collab, limit, todayDay, offsetSign) ==
    LET modified == modifiedAlert(alert, todayDay, offsetSign)
    IN IF ~Has(modified) THEN Null
       ELSE IF collab.kind # "returns" THEN Null      \* caught and logged
       ELSE IF Len(collab.flights) = 0 THEN Null
       ELSE LET limitedFlights == Take(collab.flights, limit)
                matchingFlights ==
                    filterFlightsByAlertCriteria(limitedFlights, Val(modified).filters)
            IN IF Len(matchingFlights) > 0
               THEN Some([alert |-> alert, flights |-> matchingFlights])
               ELSE Null

RECURSIVE verboseLoop(_, _, _, _, _, _)
verboseLoop(i, list, collabs, limit, todayDay, offsetSign) ==
    IF i > Len(list) THEN <<>>
    ELSE LET pushed == verboseIteration(list[i], collabs[i], limit, todayDay, offsetSign)
         IN (IF Has(pushed) THEN <<Val(pushed)>> ELSE <<>>)
            \o verboseLoop(i + 1, list, collabs, limit, todayDay, offsetSign)

fetchFlightDataVerbose(list, collabs, limit, todayDay, offsetSign) ==
    verboseLoop(1, list, collabs, limit, todayDay, offsetSign)

TesterInit ==
    /\ FetchInit
    /\ verboseResults = <<>>

\* the script runs fetchFlightDataVerbose(alerts, maxFlights): the loop awaits
\* each search before it starts the next alert
CallFetchFlightDataVerbose ==
    /\ ~Has(verboseResults)
    /\ verboseResults' = Some(fetchFlightDataVerbose(alerts, collaborator, maxFlights, today, tz))
    /\ UNCHANGED testerOthers

TesterNext ==
    \/ FetchNext
    \/ CallFetchFlightDataVerbose

\* C29: The local email-generation tester follows the production fetch.  For
\* every list of alerts, the same reference day and the same answers of the
\* search collaborator, fetchFlightDataVerbose of the tester script and
\* fetchFlightDataForAlerts of the core return the same alerts with the same
\* flights in the same order, also for alerts with no dateFrom and for alerts
\* whose dateFrom is in the past with no dateTo.
C29_TesterFollowsProduction ==
    (batch = "resolved" /\ Has(verboseResults)) => Val(verboseResults) = successfulResults

-----------------------------------------------------------------------------
(* Further properties of the batch fetch (SpecFetch) *)

\* the flights of `raw` that satisfy the alert's criteria, in order
Matching(filters, raw) ==
    IF Has(filters.filters)
    THEN SelectSeq(raw, LAMBDA f : SatisfiesAll(Val(filters.filters), f))
    ELSE raw

\* C13: Cap before filter.  For every alert whose search returned, the
\* flights of its result are the Result Filter applied to the first
\* maxFlights flights the search collaborator returned: each of them stands
\* at a position up to maxFlights of the raw results, there are at most
\* maxFlights of them, and a matching flight further down never appears.
C13_CapBeforeFilter ==
    \A i \in DOMAIN alerts :
        Has(results[i]) =>
            LET raw == collaborator[i].flights
                out == Val(results[i]).flights
            IN /\ out = Matching(alerts[i].filters, Take(raw, maxFlights))
               /\ Len(out) <= maxFlights
               /\ \A k \in DOMAIN out :
                     \E pos \in DOMAIN raw : pos <= maxFlights /\ raw[pos] = out[k]

\* a matching flight at position maxFlights + 1 of the raw results is left out
C13_Witness ==
    /\ batch = "resolved"
    /\ \E i \in DOMAIN alerts :
          /\ Has(results[i])
          /\ Len(collaborator[i].flights) > maxFlights
          /\ Has(alerts[i].filters.filters)
          /\ SatisfiesAll(Val(alerts[i].filters.filters),
                          collaborator[i].flights[maxFlights + 1])
          /\ \A k \in DOMAIN Val(results[i]).flights :
                Val(results[i]).flights[k] # collaborator[i].flights[maxFlights + 1]
          /\ Len(Val(results[i]).flights) = 1

\* position of alert `id` in the sequence `order`
RankIn(order, id) == CHOOSE k \in DOMAIN order : order[k] = id

\* C15: Order independence of the fan-out.  Whatever the order in which the
\* per-alert searches complete, the entries of the batch result, and the
\* per-alert summaries built from them for the email payload, appear in the
\* relative order of their alerts in the input list.
C15_InputOrderKept ==
    batch = "resolved" =>
        LET summaries == formatAlertsForEmail(successfulResults)
        IN \A m, n \in DOMAIN successfulResults :
              m < n => /\ successfulResults[m].alert.id < successfulResults[n].alert.id
                       /\ summaries[m].alert.id < summaries[n].alert.id

\* two alerts with flights whose searches completed in the reverse of their
\* input order
C15_Witness ==
    /\ batch = "resolved"
    /\ Len(successfulResults) >= 2
    /\ LET first == successfulResults[1].alert.id
           second == successfulResults[2].alert.id
       IN /\ first \in searchCalls /\ second \in searchCalls
          /\ RankIn(settleOrder, second) < RankIn(settleOrder, first)

\* the batch result has an entry for alert i
HasEntry(i) == \E n \in DOMAIN successfulResults : successfulResults[n].alert.id = i

\* C16: Batch output membership.  The batch result has an entry for an alert
\* exactly when its filters translated to a query, its search returned
\* without an exception and at least one flight survived the cap and the
\* Result Filter; every entry has a non-empty flights list and no alert has
\* two entries.
C16_BatchMembership ==
    batch = "resolved" =>
        /\ \A i \in DOMAIN alerts :
              HasEntry(i) <=>
                  /\ Has(convertAlertFiltersToFlightFilters(alerts[i].filters, today, tz))
                  /\ collaborator[i].kind = "returns"
                  /\ Matching(alerts[i].filters,
                              Take(collaborator[i].flights, maxFlights)) # <<>>
        /\ \A n \in DOMAIN successfulResults :
              /\ Len(successfulResults[n].flights) > 0
              /\ successfulResults[n].alert = alerts[successfulResults[n].alert.id]
        /\ \A m, n \in DOMAIN successfulResults :
              successfulResults[m].alert.id = successfulResults[n].alert.id => m = n

\* a batch of three: one alert with an entry, one whose window had elapsed
\* and one whose search returned flights none of which passed the filter
C16_Witness ==
    /\ batch = "resolved"
    /\ Len(alerts) = 3
    /\ Len(successfulResults) = 1
    /\ \E i \in DOMAIN alerts :
          ~Has(convertAlertFiltersToFlightFilters(alerts[i].filters, today, tz))
    /\ \E i \in DOMAIN alerts :
          /\ i \in searchCalls
          /\ Has(results[i])
          /\ Val(results[i]).flights = <<>>

\* the translator returned null for alert i
FullyExpired(i) ==
    ~Has(convertAlertFiltersToFlightFilters(alerts[i].filters, today, tz))

\* C22: A fully expired alert is a skip, not an error.  For an alert the
\* translator returns null for, searchFlights is never called, no failure is
\* logged and the batch holds no entry; the batch does not reject, and every
\* other alert ends with the result it yields when fetched on its own.
C22_ExpiredIsSkipped ==
    /\ batch # "rejected"
    /\ \A i \in DOMAIN alerts :
          FullyExpired(i) =>
              /\ i \notin searchCalls
              /\ i \notin failureLog
              /\ fetchPromises[i] \in {"none", "settled"}
              /\ results[i] = Null
              /\ ~HasEntry(i)
    /\ batch = "resolved" =>
          \A i \in DOMAIN alerts : ~FullyExpired(i) => results[i] = EntryAlone(i)

\* a resolved batch whose first alert's window had elapsed, with an entry for
\* a later alert and a logged failure for another
C22_Witness ==
    /\ batch = "resolved"
    /\ Len(alerts) = 3
    /\ FullyExpired(1)
    /\ Has(Val(alerts[1].filters.filters).dateTo)
    /\ \E i \in DOMAIN alerts : HasEntry(i)
    /\ \E i \in DOMAIN alerts : i \in failureLog /\ ~FullyExpired(i)

-----------------------------------------------------------------------------
(* Notification Content Pipeline                                            *)
(*                                                                          *)
(* A string is a sequence of chunks [t, n, v]: text t of n characters,      *)
(* carrying the number v it was formatted from (0 for plain text).  Markup  *)
(* is a sequence of tokens [k, s]: a tag or a text node holding string s.   *)
(* The bullet and arrow characters of the templates are written * and ->.   *)

Lit(t, n) == IF n = 0 THEN <<>> ELSE <<[t |-> t, n |-> n, v |-> 0]>>
Num(fmt, v) == <<[t |-> fmt, n |-> 1, v |-> v]>>
Rep(t, n) == Lit(t, n)

RECURSIVE StrLen(_)
StrLen(str) ==
    IF Len(str) = 0 THEN 0
    ELSE IF Len(str) = 1 THEN str[1].n
    ELSE LET mid == Len(str) \div 2
         IN StrLen(SubSeq(str, 1, mid)) + StrLen(SubSeq(str, mid + 1, Len(str)))

Tag(name) == <<[k |-> "tag", s |-> Lit(name, 1)]>>
\* React renders nothing for null, undefined and the empty string
Text(str) == IF StrLen(str) = 0 THEN <<>> ELSE <<[k |-> "text", s |-> str]>>

RECURSIVE Flatten(_)
Flatten(seqs) ==
    IF Len(seqs) = 0 THEN <<>>
    ELSE IF Len(seqs) = 1 THEN seqs[1]
    ELSE LET mid == Len(seqs) \div 2
         IN Flatten(SubSeq(seqs, 1, mid)) \o Flatten(SubSeq(seqs, mid + 1, Len(seqs)))

(* lib/notifications/formatters *)
stripHtml(html) ==
    Flatten([i \in DOMAIN html |-> IF html[i].k = "text" THEN html[i].s ELSE <<>>])

escapeHtml(str) ==
    [i \in DOMAIN str |-> IF str[i].t = "&" THEN [str[i] EXCEPT !.t = "&amp;", !.n = 5]
                          ELSE str[i]]

formatDate(iso) ==
    CASE iso = "2025-01-01" -> Lit("Jan 1, 2025", 11)
      [] iso = "2025-06-05T08:30:00Z" -> Lit("Jun 5, 2025", 11)
      [] OTHER -> Lit("Invalid Date", 12)

formatDateTime(iso) ==
    CASE iso = "2025-01-01" -> Lit("January 1 at 12:00 AM", 21)
      [] iso = "2025-06-05T08:30:00Z" -> Lit("June 5 at 8:30 AM", 17)
      [] OTHER -> Lit("Invalid Date", 12)

formatCurrency(amount, currency) == Num("currency", amount) \o Lit(" ", 1) \o currency

RECURSIVE joinWithAnd(_)
joinWithAnd(items) ==
    IF Len(items) = 0 THEN <<>>
    ELSE IF Len(items) = 1 THEN items[1]
    ELSE IF Len(items) = 2 THEN items[1] \o Lit(" and ", 5) \o items[2]
    ELSE items[1] \o Lit(", ", 2) \o joinWithAnd(Tail(items))

(* templates/components *)
EmailLayout(previewText, children) ==
    Tag("html") \o Tag("head") \o Tag("title") \o Text(Lit("Flight Alerts", 13)) \o Tag("/title")
    \o Tag("/head") \o Tag("body")
    \o Tag("div") \o Text(previewText) \o Tag("/div")
    \o Tag("div") \o children
    \o Tag("div")
    \o Text(Lit("You are receiving this update because you subscribed to flight alerts.", 70))
    \o Tag("/div") \o Tag("/div") \o Tag("/body") \o Tag("/html")

\* DOCTYPE + renderToStaticMarkup(<EmailLayout>)
wrapWithLayout(previewText, children) ==
    Tag("!DOCTYPE html") \o EmailLayout(previewText, children)

EmailSection(title, description, children) ==
    Tag("section")
    \o (IF Has(title) /\ StrLen(Val(title)) > 0
        THEN Tag("h2") \o Text(Val(title)) \o Tag("/h2") ELSE <<>>)
    \o (IF Has(description) /\ StrLen(Val(description)) > 0
        THEN Tag("p") \o Text(Val(description)) \o Tag("/p") ELSE <<>>)
    \o Tag("div") \o children \o Tag("/div")
    \o Tag("/section")

TextBlock(headline, body) ==
    Tag("div")
    \o (IF Has(headline) /\ StrLen(Val(headline)) > 0
        THEN Tag("h3") \o Text(Val(headline)) \o Tag("/h3") ELSE <<>>)
    \o Tag("p") \o Text(body) \o Tag("/p")
    \o Tag("/div")

BadgeRow(items) ==
    IF Len(items) = 0 THEN <<>>
    ELSE Tag("div")
         \o Flatten([i \in DOMAIN items |->
                        Tag("span") \o Text(items[i].label) \o Tag("/span")])
         \o Tag("/div")

FlightCard(card) ==
    Tag("div") \o Tag("h3") \o Text(card.title) \o Tag("/h3")
    \o Tag("p") \o Text(card.description) \o Tag("/p")
    \o Tag("ul")
    \o Flatten([i \in DOMAIN card.highlights |->
                   Tag("li") \o Tag("strong") \o Text(card.highlights[i].label \o Lit(":", 1))
                   \o Tag("/strong") \o Text(card.highlights[i].value) \o Tag("/li")])
    \o Tag("/ul")
    \o (IF Has(card.action)
        THEN Tag("a") \o Text(Val(card.action).label) \o Tag("/a") ELSE <<>>)
    \o Tag("/div")

FlightCardGrid(cards) ==
    Tag("div") \o Flatten([i \in DOMAIN cards |-> FlightCard(cards[i])]) \o Tag("/div")

ChartBlock(component) ==
    Tag("div") \o Tag("h3") \o Text(component.title) \o Tag("/h3")
    \o Tag("p") \o Text(component.summary) \o Tag("/p") \o Tag("/div")

RECURSIVE SumSeq(_)
SumSeq(ns) == IF ns = <<>> THEN 0 ELSE Head(ns) + SumSeq(Tail(ns))

buildFlightHighlights(flight) ==
    LET slices == flight.slices
        firstLeg == IF Len(slices) > 0 /\ Len(slices[1].legs) > 0
                    THEN Some(slices[1].legs[1]) ELSE Absent
        lastLeg == IF Len(slices) > 0 /\ Len(slices[Len(slices)].legs) > 0
                   THEN Some(slices[Len(slices)].legs[Len(slices[Len(slices)].legs)])
                   ELSE Absent
        durationMinutes == SumSeq([i \in DOMAIN slices |-> slices[i].durationMinutes])
        totalStops == SumSeq([i \in DOMAIN slices |-> slices[i].stops])
    IN <<[label |-> Lit("Price", 5),
          value |-> Num("toFixed0", flight.totalPrice) \o Lit(" ", 1) \o flight.currency],
         [label |-> Lit("Duration", 8),
          value |-> Num("int", durationMinutes \div 60) \o Lit("h ", 2)
                    \o Num("int", durationMinutes % 60) \o Lit("m", 1)],
         [label |-> Lit("Stops", 5),
          value |-> IF totalStops = 0 THEN Lit("Nonstop", 7)
                    ELSE Num("int", totalStops) \o Lit(" stop", 5)
                         \o (IF totalStops > 1 THEN Lit("s", 1) ELSE <<>>)]>>
       \o (IF Has(firstLeg)
           THEN <<[label |-> Lit("Departure", 9),
                   value |-> Val(firstLeg).departureAirportCode \o Lit(" * ", 3)
                             \o formatDateTime(Val(firstLeg).departureDateTime)]>>
           ELSE <<>>)
       \o (IF Has(lastLeg)
           THEN <<[label |-> Lit("Arrival", 7),
                   value |-> Val(lastLeg).arrivalAirportCode \o Lit(" * ", 3)
                             \o formatDateTime(Val(lastLeg).arrivalDateTime)]>>
           ELSE <<>>)

optionCards(origin, destination, flights) ==
    [idx \in DOMAIN flights |->
        [title |-> Lit("Option ", 7) \o Num("int", idx),
         description |-> origin \o Lit(" -> ", 4) \o destination,
         highlights |-> buildFlightHighlights(flights[idx]),
         action |-> Absent]]

-----------------------------------------------------------------------------
(* templates/blueprint-utils: renderSectionsFromBlueprint                   *)

Threw == [threw |-> TRUE, value |-> <<>>]
Returned(v) == [threw |-> FALSE, value |-> v]

\* one child node of a rendered section
GridNode(cards) == [type |-> "grid", cards |-> cards]
ComponentNode(component) == [type |-> component.type, component |-> component]

renderFlightCardGrid(cards) ==
    FlightCardGrid([i \in DOMAIN cards |->
                       [title |-> cards[i].title, description |-> cards[i].description,
                        highlights |-> cards[i].highlights, action |-> cards[i].action]])

\* a flushCards that pushes the grid and leaves the buffer as it is
flushCards_KeepsBuffer(acc) ==
    IF Len(acc.pendingCards) = 0 THEN acc
    ELSE [acc EXCEPT !.children = Append(@, GridNode(acc.pendingCards))]

\* flushCards(): the grid of the pending cards is pushed, the buffer emptied
flushCards(acc) ==
    IF Len(acc.pendingCards) = 0 THEN acc
    ELSE [acc EXCEPT !.children = Append(@, GridNode(acc.pendingCards)),
                     !.pendingCards = <<>>]

\* one iteration of `for (const component of section.components)`
sectionStep(acc, component) ==
    IF acc.threw THEN acc
    ELSE CASE component.type = "flight-card" ->
                [acc EXCEPT !.pendingCards = Append(@, component)]
           [] component.type \in {"text", "badge-row", "chart"} ->
                [flushCards(acc) EXCEPT !.children = Append(@, ComponentNode(component))]
           [] OTHER -> [acc EXCEPT !.threw = TRUE]

RECURSIVE sectionLoop(_, _)
sectionLoop(acc, components) ==
    IF components = <<>> THEN acc
    ELSE sectionLoop(sectionStep(acc, Head(components)), Tail(components))

\* the children and the pending-card buffer of one section when its loop and
\* the final flushCards() are done
sectionChildren(section) ==
    LET looped == sectionLoop([children |-> <<>>, pendingCards |-> <<>>, threw |-> FALSE],
                              section.components)
    IN IF looped.threw THEN looped ELSE flushCards(looped)

NodeMarkup(node) ==
    CASE node.type = "grid" -> renderFlightCardGrid(node.cards)
      [] node.type = "text" -> TextBlock(node.component.headline, node.component.body)
      [] node.type = "badge-row" -> BadgeRow(node.component.items)
      [] node.type = "chart" -> ChartBlock(node.component)

renderSectionsFromBlueprint(sections) ==
    LET done == [i \in DOMAIN sections |-> sectionChildren(sections[i])]
    IN IF \E i \in DOMAIN sections : done[i].threw
       THEN Threw
       ELSE Returned(Flatten([i \in DOMAIN sections |->
                EmailSection(sections[i].title, sections[i].description,
                             Flatten([c \in DOMAIN done[i].children |->
                                         NodeMarkup(done[i].children[c])]))]))

renderCallToActionBlock(cta) ==
    IF ~Has(cta.url) THEN TextBlock(Absent, cta.label)
    ELSE Tag("div") \o Tag("a") \o Text(cta.label) \o Tag("/a") \o Tag("/div")

\* templates/base: renderEmail
renderEmail(subject, html) == [subject |-> subject, html |-> html, text |-> stripHtml(html)]

\* the part of renderBlueprintEmail the two templates share; hero is the
\* price-drop template's hero block and empty for the daily template
blueprintEmail(bp, hero) ==
    LET subject == bp.metadata.subject
        previewText == bp.metadata.previewText
        intro == IF StrLen(bp.metadata.intro) > 0
                 THEN EmailSection(Absent, Absent, TextBlock(Absent, bp.metadata.intro))
                 ELSE <<>>
        personalization ==
            IF Has(bp.metadata.personalization) /\ StrLen(Val(bp.metadata.personalization)) > 0
            THEN EmailSection(Absent, Absent,
                              TextBlock(Absent, Val(bp.metadata.personalization)))
            ELSE <<>>
        callToAction == IF Has(bp.metadata.callToAction)
                        THEN renderCallToActionBlock(Val(bp.metadata.callToAction))
                        ELSE <<>>
        sections == renderSectionsFromBlueprint(bp.sections)
    IN IF sections.threw THEN Threw
       ELSE Returned(renderEmail(subject,
                wrapWithLayout(previewText,
                    hero \o intro \o sections.value \o callToAction \o personalization)))

-----------------------------------------------------------------------------
(* templates/daily-price-update *)

alertBadges(alert, priceWord) ==
    (IF Has(alert.seatType) THEN <<[label |-> Val(alert.seatType)]>> ELSE <<>>)
    \o (IF Has(alert.stops) THEN <<[label |-> Val(alert.stops)]>> ELSE <<>>)
    \o (IF Has(alert.airlines) /\ Len(Val(alert.airlines)) > 0
        THEN <<[label |-> Lit("Airlines: ", 10) \o joinWithAnd(Val(alert.airlines))]>> ELSE <<>>)
    \o (IF Has(alert.priceLimit)
        THEN <<[label |-> priceWord \o formatCurrency(Val(alert.priceLimit).amount,
                                                      Val(alert.priceLimit).currency)]>>
        ELSE <<>>)

renderFallbackSections(p) ==
    IF Len(p.alerts) = 0
    THEN EmailSection(Absent, Absent,
             TextBlock(Absent, Lit("No new flight matches were found in the past day.", 49)))
    ELSE Flatten([i \in DOMAIN p.alerts |->
            LET summary == p.alerts[i]
            IN EmailSection(Some(summary.alert.label),
                   Some(summary.alert.origin \o Lit(" -> ", 4) \o summary.alert.destination
                        \o Lit(" * Updated ", 11) \o formatDateTime(summary.generatedAt)),
                   BadgeRow(alertBadges(summary.alert, Lit("Max ", 4)))
                   \o FlightCardGrid(optionCards(summary.alert.origin,
                                                 summary.alert.destination,
                                                 summary.flights)))])

\* a fallback that takes its heading from the first alert of the digest
renderDailyFallbackEmail_FirstAlert(p, subject, previewText) ==
    IF Len(p.alerts) = 0 THEN Threw
    ELSE Returned(renderEmail(subject,
            wrapWithLayout(previewText,
                EmailSection(Some(p.alerts[1].alert.label), Absent, <<>>)
                \o renderFallbackSections(p))))

renderDailyFallbackEmail(p, subject, previewText) ==
    Returned(renderEmail(subject,
        wrapWithLayout(previewText,
            EmailSection(Some(Lit("Daily flight price update", 25)), Absent,
                TextBlock(Absent, Lit("Summary for ", 12) \o escapeHtml(formatDate(p.summaryDate))))
            \o renderFallbackSections(p))))

\* the template without the try/catch around renderBlueprintEmail
renderDailyPriceUpdateEmail_NoCatch(p, options) ==
    LET subject == Lit("Daily update: ", 14) \o formatDate(p.summaryDate) \o Lit(" alerts", 7)
        previewText ==
            IF Len(p.alerts) # 0
            THEN Lit("Top matches for ", 16) \o Num("int", Len(p.alerts)) \o Lit(" active alert", 13)
                 \o (IF Len(p.alerts) > 1 THEN Lit("s", 1) ELSE <<>>) \o Lit(".", 1)
            ELSE Lit("No new matches today.", 21)
    IN IF ~Has(options) THEN renderDailyFallbackEmail(p, subject, previewText)
       ELSE blueprintEmail(Val(options), <<>>)

\* options: <<>> (no options, or options.blueprint null) or <<blueprint>>
renderDailyPriceUpdateEmail(p, options) ==
    LET subject == Lit("Daily update: ", 14) \o formatDate(p.summaryDate) \o Lit(" alerts", 7)
        previewText ==
            IF Len(p.alerts) # 0
            THEN Lit("Top matches for ", 16) \o Num("int", Len(p.alerts)) \o Lit(" active alert", 13)
                 \o (IF Len(p.alerts) > 1 THEN Lit("s", 1) ELSE <<>>) \o Lit(".", 1)
            ELSE Lit("No new matches today.", 21)
        fallback == renderDailyFallbackEmail(p, subject, previewText)
    IN IF ~Has(options) THEN fallback
       ELSE LET viaBlueprint == blueprintEmail(Val(options), <<>>)
            IN IF viaBlueprint.threw THEN fallback ELSE viaBlueprint

-----------------------------------------------------------------------------
(* templates/price-drop-alert *)

renderHero(p) ==
    LET alert == p.alert
        newPrice == IF Has(p.newLowestPrice)
                    THEN formatCurrency(Val(p.newLowestPrice).amount,
                                        Val(p.newLowestPrice).currency)
                    ELSE <<>>
        priceSummary ==
            IF ~Has(p.newLowestPrice) THEN <<>>
            ELSE IF Has(p.previousLowestPrice)
                 THEN Lit("<div>New low price ", 19) \o escapeHtml(newPrice) \o Lit(" (was ", 6)
                      \o escapeHtml(formatCurrency(Val(p.previousLowestPrice).amount,
                                                   Val(p.previousLowestPrice).currency))
                      \o Lit(")</div>", 7)
                 ELSE Lit("<div>Lowest available price ", 28) \o escapeHtml(newPrice) \o Lit("</div>", 6)
        badges == alertBadges(alert, Lit("Target: ", 8))
    IN Tag("section")
       \o Tag("div") \o Text(Lit("Price drop detected", 19)) \o Tag("/div")
       \o Tag("h1") \o Text(alert.origin \o Lit(" -> ", 4) \o alert.destination) \o Tag("/h1")
       \o Tag("div") \o Text(Lit("Alert: ", 7) \o alert.label) \o Tag("/div")
       \o Tag("div") \o Text(Lit("Updated ", 8) \o formatDateTime(p.detectedAt)) \o Tag("/div")
       \o BadgeRow(badges)
       \o (IF StrLen(priceSummary) > 0
           THEN Tag("div") \o Text(priceSummary) \o Tag("/div") ELSE <<>>)
       \o Tag("/section")

renderPriceDropFallbackEmail(p, subject, previewText) ==
    Returned(renderEmail(subject,
        wrapWithLayout(previewText,
            renderHero(p)
            \o EmailSection(Absent, Absent,
                   TextBlock(Absent, Lit("Here are the best matches right now. Prices can change quickly, so book soon if any option works for you.", 105))
                   \o FlightCardGrid(optionCards(p.alert.origin, p.alert.destination,
                                                 p.flights))))))

renderPriceDropAlertEmail(p, options) ==
    LET baseSubject == Lit("Price drop: ", 12) \o p.alert.origin \o Lit(" -> ", 4) \o p.alert.destination
        fallbackPreview ==
            (IF Has(p.newLowestPrice)
             THEN formatCurrency(Val(p.newLowestPrice).amount, Val(p.newLowestPrice).currency)
                  \o Lit(" * ", 3)
             ELSE <<>>) \o formatDate(p.detectedAt)
        fallback == renderPriceDropFallbackEmail(p, baseSubject, fallbackPreview)
    IN IF ~Has(options) THEN fallback
       ELSE LET viaBlueprint == blueprintEmail(Val(options), renderHero(p))
            IN IF viaBlueprint.threw THEN fallback ELSE viaBlueprint

-----------------------------------------------------------------------------
(* ai-email-schemas: EmailBlueprintSchema *)

LenIn(str, lo, hi) == lo <= StrLen(str) /\ StrLen(str) <= hi
OptLenIn(opt, lo, hi) == ~Has(opt) \/ LenIn(Val(opt), lo, hi)

EmailBlueprintMetadataSchema(m) ==
    /\ LenIn(m.subject, 1, 120)
    /\ LenIn(m.previewText, 1, 180)
    /\ LenIn(m.intro, 1, 600)
    /\ ~Has(m.callToAction) \/ LenIn(Val(m.callToAction).label, 1, 60)
    /\ OptLenIn(m.personalization, 0, 240)

EmailComponentSchema(c) ==
    /\ StrLen(c.id) >= 1
    /\ CASE c.type = "text" ->
              OptLenIn(c.headline, 1, 120) /\ LenIn(c.body, 1, 800)
         [] c.type = "flight-card" ->
              /\ LenIn(c.title, 1, 120) /\ LenIn(c.description, 1, 240)
              /\ 1 <= Len(c.highlights) /\ Len(c.highlights) <= 6
              /\ \A i \in DOMAIN c.highlights :
                    LenIn(c.highlights[i].label, 1, 60) /\ LenIn(c.highlights[i].value, 1, 120)
              /\ ~Has(c.action) \/ LenIn(Val(c.action).label, 1, 50)
         [] c.type = "chart" ->
              /\ LenIn(c.title, 1, 120) /\ LenIn(c.summary, 1, 200)
              /\ 2 <= Len(c.data) /\ Len(c.data) <= 20
         [] c.type = "badge-row" ->
              /\ 1 <= Len(c.items) /\ Len(c.items) <= 10
              /\ \A i \in DOMAIN c.items : LenIn(c.items[i].label, 1, 40)
         [] OTHER -> FALSE

EmailSectionSchema(sec) ==
    /\ StrLen(sec.id) >= 1
    /\ OptLenIn(sec.title, 1, 120)
    /\ OptLenIn(sec.description, 1, 240)
    /\ 1 <= Len(sec.components) /\ Len(sec.components) <= 6
    /\ \A i \in DOMAIN sec.components : EmailComponentSchema(sec.components[i])

EmailBlueprintSchema(candidate) ==
    /\ EmailBlueprintMetadataSchema(candidate.metadata)
    /\ 1 <= Len(candidate.sections) /\ Len(candidate.sections) <= 6
    /\ \A i \in DOMAIN candidate.sections : EmailSectionSchema(candidate.sections[i])

\* the parsed data: a text block's absent tone takes the default "concise"
parsedData(candidate) ==
    [candidate EXCEPT !.sections =
        [i \in DOMAIN candidate.sections |->
            [candidate.sections[i] EXCEPT !.components =
                [j \in DOMAIN candidate.sections[i].components |->
                    LET c == candidate.sections[i].components[j]
                    IN IF c.type = "text" /\ ~Has(c.tone)
                       THEN [c EXCEPT !.tone = Some("concise")] ELSE c]]]]

\* EmailBlueprintSchema.safeParse
safeParse(candidate) ==
    IF EmailBlueprintSchema(candidate)
    THEN [success |-> TRUE, data |-> Some(parsedData(candidate))]
    ELSE [success |-> FALSE, data |-> Absent]

-----------------------------------------------------------------------------
(* ai-email-agent: generateBlueprint *)

Resolved(v) == [state |-> "resolved", value |-> v]
Rejected == [state |-> "rejected", value |-> Null]

\* generateBlueprint that returns the generated object as it came
generateBlueprintSettle_Unvalidated(gen) ==
    CASE gen.kind = "throws" -> Resolved(Null)
      [] gen.kind = "nothing" -> Resolved(Null)
      [] OTHER -> Resolved(gen.object)

\* generateBlueprint without its try/catch
generateBlueprintSettle_NoCatch(gen) ==
    CASE gen.kind = "throws" -> Rejected
      [] gen.kind = "nothing" -> Resolved(Null)
      [] OTHER -> IF safeParse(Val(gen.object)).success
                  THEN Resolved(safeParse(Val(gen.object)).data) ELSE Resolved(Null)

\* generateBlueprint from the point where `await generateObject(...)` settles
generateBlueprintSettle(gen) ==
    CASE gen.kind = "throws" -> Resolved(Null)      \* catch: logger.warn, then return null
      [] gen.kind = "nothing" -> Resolved(Null)     \* result.object is not set
      [] OTHER -> LET validated == safeParse(Val(gen.object))
                  IN IF validated.success THEN Resolved(validated.data) ELSE Resolved(Null)

-----------------------------------------------------------------------------
(* ai-email-context *)

summarizeFlight(option) ==
    LET slices == option.slices
        lastSlice == IF Len(slices) > 0 THEN Some(slices[Len(slices)]) ELSE Absent
        firstLeg == IF Len(slices) > 0 /\ Len(slices[1].legs) > 0
                    THEN Some(slices[1].legs[1]) ELSE Absent
        lastLeg == IF Has(lastSlice) /\ Len(Val(lastSlice).legs) > 0
                   THEN Some(Val(lastSlice).legs[Len(Val(lastSlice).legs)]) ELSE Absent
    IN [price |-> option.totalPrice,
        currency |-> option.currency,
        totalDurationMinutes |-> SumSeq([i \in DOMAIN slices |-> slices[i].durationMinutes]),
        totalStops |-> SumSeq([i \in DOMAIN slices |-> slices[i].stops]),
        airlines |-> UNION {{slices[i].legs[j].airlineCode : j \in DOMAIN slices[i].legs}
                            : i \in DOMAIN slices},
        departure |-> IF Has(firstLeg)
                      THEN Some([airport |-> Val(firstLeg).departureAirportCode,
                                 dateTime |-> Val(firstLeg).departureDateTime]) ELSE Absent,
        arrival |-> IF Has(lastLeg)
                    THEN Some([airport |-> Val(lastLeg).arrivalAirportCode,
                               dateTime |-> Val(lastLeg).arrivalDateTime]) ELSE Absent]

summarizeFlights(flights, limit) ==
    LET kept == Take(flights, limit)
    IN [i \in DOMAIN kept |-> [summary |-> summarizeFlight(kept[i]), raw |-> kept[i]]]

summarizeDailyAlert(entry) ==
    LET summaries == summarizeFlights(entry.flights, 3)
    IN [alert |-> entry.alert,
        generatedAt |-> entry.generatedAt,
        flights |-> [i \in DOMAIN summaries |-> summaries[i].summary],
        best |-> IF Len(summaries) > 0 THEN Some(summaries[1].summary) ELSE Absent]

buildDailyDigestBlueprintContext(p) ==
    LET alertSummaries == [i \in DOMAIN p.alerts |-> summarizeDailyAlert(p.alerts[i])]
    IN [date |-> p.summaryDate,
        alerts |-> alertSummaries,
        aggregateMetrics |->
            [alertCount |-> Len(p.alerts),
             flightOptions |-> SumSeq([i \in DOMAIN alertSummaries |->
                                          Len(alertSummaries[i].flights)]),
             uniqueRoutes |-> Cardinality({<<alertSummaries[i].alert.origin,
                                            alertSummaries[i].alert.destination>>
                                           : i \in DOMAIN alertSummaries})]]

buildPriceDropBlueprintContext(p) ==
    LET summaries == summarizeFlights(p.flights, 4)
    IN [alert |-> p.alert,
        detectedAt |-> p.detectedAt,
        flights |-> [i \in DOMAIN summaries |-> summaries[i].summary],
        metrics |-> [flightCount |-> Len(p.flights),
                     nonstopOptions |->
                         Cardinality({i \in DOMAIN p.flights :
                             \A j \in DOMAIN p.flights[i].slices :
                                 p.flights[i].slices[j].stops = 0})]]

buildContext(p) ==
    IF p.type = "daily-price-update" THEN buildDailyDigestBlueprintContext(p)
    ELSE buildPriceDropBlueprintContext(p)

-----------------------------------------------------------------------------
(* ai-email-service: renderDailyDigestEmailWithAI, renderPriceDropEmailWithAI *)

EmptyEmail == [subject |-> <<>>, html |-> <<>>, text |-> <<>>]

renderTemplate(p, options) ==
    IF p.type = "daily-price-update" THEN renderDailyPriceUpdateEmail(p, options)
    ELSE renderPriceDropAlertEmail(p, options)

\* whether the template rendered the blueprint or its fallback
renderedVia(p, options) ==
    IF Has(options)
       /\ ~blueprintEmail(Val(options),
                          IF p.type = "daily-price-update" THEN <<>> ELSE renderHero(p)).threw
    THEN "blueprint" ELSE "fallback"

\* the options the service passes to the template: none from the catch block
\* and for a null blueprint, { blueprint } otherwise
serviceOptions(settled) ==
    IF settled.state = "rejected" THEN Absent ELSE settled.value

(* Inputs *)
Descriptor(id, seatType, stops, airlines, priceLimit) ==
    [id |-> id, label |-> Lit("Weekend NYC", 11), origin |-> Lit("JFK", 3), destination |-> Lit("LAX", 3),
     seatType |-> seatType, stops |-> stops, airlines |-> airlines, priceLimit |-> priceLimit]

PlainAlert == Descriptor(Lit("alt-1", 5), Absent, Absent, Absent, Absent)
FilteredAlert ==
    Descriptor(Lit("alt-2", 5), Some(Lit("Economy", 7)), Some(Lit("Nonstop", 7)), Some(<<Lit("AA", 2), Lit("UA", 2)>>),
               Some([amount |-> 250, currency |-> Lit("USD", 3)]))

PayloadFlight(i) ==
    [totalPrice |-> 200 + 10 * i, currency |-> Lit("USD", 3),
     slices |-> <<[stops |-> i % 2, durationMinutes |-> 300 + i,
                   legs |-> <<[airlineCode |-> "AA",
                               departureAirportCode |-> Lit("JFK", 3),
                               departureDateTime |-> "2025-06-05T08:30:00Z",
                               arrivalAirportCode |-> Lit("LAX", 3),
                               arrivalDateTime |-> "2025-06-05T08:30:00Z"]>>]>>]

PayloadFlights(n) == [i \in 1..n |-> PayloadFlight(i)]

DailySummary(alert, n) ==
    [alert |-> alert, flights |-> PayloadFlights(n), generatedAt |-> "2025-06-05T08:30:00Z"]

DailyPayload(date, summaries) ==
    [type |-> "daily-price-update", summaryDate |-> date, alerts |-> summaries]

PriceDropPayload(alert, n, newLowest, previousLowest) ==
    [type |-> "price-drop-alert", alert |-> alert, flights |-> PayloadFlights(n),
     detectedAt |-> "2025-06-05T08:30:00Z",
     newLowestPrice |-> newLowest, previousLowestPrice |-> previousLowest]

Money(amount) == Some([amount |-> amount, currency |-> Lit("USD", 3)])

PayloadChoices ==
    { DailyPayload("2025-01-01", <<>>),
      DailyPayload("not-a-date", <<>>),
      DailyPayload("2025-01-01", <<DailySummary(PlainAlert, 1)>>),
      DailyPayload("2025-06-05T08:30:00Z",
                   <<DailySummary(FilteredAlert, MaxPayloadFlights),
                     DailySummary(PlainAlert, 0)>>),
      PriceDropPayload(PlainAlert, 0, Absent, Absent),
      PriceDropPayload(FilteredAlert, MaxPayloadFlights, Money(210), Absent),
      PriceDropPayload(FilteredAlert, 2, Money(210), Money(260)) }

TextComponent(id, body) ==
    [type |-> "text", id |-> id, headline |-> Absent, body |-> body, tone |-> Absent]
CardComponent(id, title) ==
    [type |-> "flight-card", id |-> id, title |-> title, description |-> Lit("JFK to LAX", 10),
     highlights |-> <<[label |-> Lit("Price", 5), value |-> Lit("210 USD", 7)]>>, action |-> Absent]
BadgeComponent(id) ==
    [type |-> "badge-row", id |-> id, items |-> <<[label |-> Lit("Nonstop", 7)]>>]
VideoComponent(id) == [type |-> "video", id |-> id]

BlueprintSection(id, components) ==
    [id |-> id, title |-> Some(Lit("Summary", 7)), description |-> Absent, components |-> components]

Candidate(subjectLen, sections) ==
    [metadata |-> [subject |-> Rep("S", subjectLen),
                   previewText |-> Lit("Latest updates based on your alert", 34),
                   intro |-> Lit("Here is your latest flight update.", 34),
                   callToAction |-> Absent, personalization |-> Absent],
     sections |-> sections]

OverviewSection == BlueprintSection(Lit("overview", 8), <<TextComponent(Lit("t1", 2), Lit("No major updates.", 17))>>)
DealsSection ==
    BlueprintSection(Lit("deals", 5),
        <<CardComponent(Lit("c1", 2), Lit("Best", 4)), TextComponent(Lit("t2", 2), Lit("Also good:", 10)),
          CardComponent(Lit("c2", 2), Lit("Second", 6)), CardComponent(Lit("c3", 2), Lit("Third", 5)),
          BadgeComponent(Lit("b1", 2))>>)

ValidCandidates ==
    { Candidate(1, <<OverviewSection>>),
      Candidate(120, <<OverviewSection, DealsSection>>) }

InvalidCandidates ==
    { Candidate(121, <<OverviewSection>>),
      Candidate(0, <<OverviewSection>>),
      Candidate(12, <<>>),
      Candidate(12, [i \in 1..7 |-> OverviewSection]),
      Candidate(12, <<BlueprintSection(Lit("media", 5), <<VideoComponent(Lit("v1", 2))>>)>>) }

GenerationChoices ==
    { [kind |-> "throws", object |-> Absent], [kind |-> "nothing", object |-> Absent] }
    \cup { [kind |-> "object", object |-> Some(c)] : c \in ValidCandidates \cup InvalidCandidates }

RenderInit ==
    /\ payload \in PayloadChoices
    /\ aiKey \in BOOLEAN
    /\ generation \in GenerationChoices
    /\ renderPc = "BuildContext"
    /\ context = <<>>
    /\ generateCalls = 0
    /\ blueprint = [state |-> "pending", value |-> Null]
    /\ rendered = [threw |-> FALSE, via |-> "none", email |-> EmptyEmail]

\* a service that renders right after building the context
BuildContext_SkipsGeneration ==
    /\ renderPc = "BuildContext"
    /\ context' = <<buildContext(payload)>>
    /\ blueprint' = Resolved(Null)
    /\ renderPc' = "Render"
    /\ UNCHANGED <<payload, aiKey, generation, generateCalls, rendered>>
    /\ UNCHANGED <<fetchVars, passVars, unitVars, sendVars, extVars>>

BuildContext ==
    /\ renderPc = "BuildContext"
    /\ context' = <<buildContext(payload)>>
    /\ renderPc' = "AttemptAIGeneration"
    /\ UNCHANGED <<payload, aiKey, generation, generateCalls, blueprint, rendered>>
    /\ UNCHANGED <<fetchVars, passVars, unitVars, sendVars, extVars>>

\* a generateBlueprint that goes on to generateObject without a key
GenerateDisabled_Invokes ==
    /\ renderPc = "AttemptAIGeneration"
    /\ ~aiKey
    /\ generateCalls' = generateCalls + 1
    /\ blueprint' = generateBlueprintSettle(generation)
    /\ renderPc' = "Render"
    /\ UNCHANGED <<payload, aiKey, generation, context, rendered>>
    /\ UNCHANGED <<fetchVars, passVars, unitVars, sendVars, extVars>>

\* generateBlueprint with no AI_GATEWAY_API_KEY: returns null at once
GenerateDisabled ==
    /\ renderPc = "AttemptAIGeneration"
    /\ ~aiKey
    /\ blueprint' = Resolved(Null)
    /\ renderPc' = "Render"
    /\ UNCHANGED <<payload, aiKey, generation, context, generateCalls, rendered>>
    /\ UNCHANGED <<fetchVars, passVars, unitVars, sendVars, extVars>>

\* generateBlueprint calls generateObject and suspends
CallGenerateObject ==
    /\ renderPc = "AttemptAIGeneration"
    /\ aiKey
    /\ generateCalls' = generateCalls + 1
    /\ renderPc' = "AwaitGenerateObject"
    /\ UNCHANGED <<payload, aiKey, generation, context, blueprint, rendered>>
    /\ UNCHANGED <<fetchVars, passVars, unitVars, sendVars, extVars>>

GenerateObjectSettles ==
    /\ renderPc = "AwaitGenerateObject"
    /\ blueprint' = generateBlueprintSettle(generation)
    /\ renderPc' = "Render"
    /\ UNCHANGED <<payload, aiKey, generation, context, generateCalls, rendered>>
    /\ UNCHANGED <<fetchVars, passVars, unitVars, sendVars, extVars>>

\* the service's try/catch around the awaited blueprint, then the template
RenderEmail ==
    /\ renderPc = "Render"
    /\ LET options == serviceOptions(blueprint)
           out == renderTemplate(payload, options)
       IN rendered' = [threw |-> out.threw,
                       via |-> IF out.threw THEN "none" ELSE renderedVia(payload, options),
                       email |-> IF out.threw THEN EmptyEmail ELSE out.value]
    /\ renderPc' = "Done"
    /\ UNCHANGED <<payload, aiKey, generation, context, generateCalls, blueprint>>
    /\ UNCHANGED <<fetchVars, passVars, unitVars, sendVars, extVars>>

RenderNext ==
    \/ BuildContext
    \/ GenerateDisabled
    \/ CallGenerateObject
    \/ GenerateObjectSettles
    \/ RenderEmail

-----------------------------------------------------------------------------
(* Properties of the render pipeline (SpecRender) *)

NonEmptyEmail(email) ==
    /\ StrLen(email.subject) > 0
    /\ Len(email.html) > 0
    /\ StrLen(email.text) > 0

NoBlueprintEmail(p) == renderTemplate(p, Absent)

\* C2: Fallback guarantee.  For every payload of either kind, a daily digest
\* with an empty alerts list included, rendering with no blueprint does not
\* throw and returns a subject, an html and a text that are all non-empty;
\* so does every pipeline run that ends up rendering without a blueprint.
C2_FallbackGuarantee ==
    /\ ~NoBlueprintEmail(payload).threw
    /\ NonEmptyEmail(NoBlueprintEmail(payload).value)
    /\ (renderPc = "Done" /\ ~Has(serviceOptions(blueprint)))
         => /\ ~rendered.threw
            /\ rendered.via = "fallback"
            /\ NonEmptyEmail(rendered.email)

C2_Witness ==
    /\ renderPc = "Done"
    /\ payload.type = "daily-price-update"
    /\ Len(payload.alerts) = 0
    /\ ~Has(serviceOptions(blueprint))
    /\ rendered.via = "fallback"
    /\ NonEmptyEmail(rendered.email)

GenerationReturnedInvalid ==
    /\ aiKey
    /\ generation.kind = "object"
    /\ ~EmailBlueprintSchema(Val(generation.object))

\* C3: Blueprint invalidity triggers fallback.  For every payload, when
\* generateObject returns an object that fails EmailBlueprintSchema, the
\* pipeline discards it and the rendered email (subject, html, text) equals
\* the email rendered for the same payload with no blueprint.
C3_InvalidBlueprintFallsBack ==
    (renderPc = "Done" /\ GenerationReturnedInvalid)
        => /\ blueprint = Resolved(Null)
           /\ ~rendered.threw
           /\ rendered.email = NoBlueprintEmail(payload).value

C3_Witness ==
    /\ renderPc = "Done"
    /\ GenerationReturnedInvalid
    /\ StrLen(Val(generation.object).metadata.subject) = 121
    /\ payload.type = "daily-price-update"
    /\ Len(payload.alerts) = 2
    /\ rendered.via = "fallback"

\* C4: Blueprint generation never throws past its boundary.  Whatever
\* generateObject does (returns a valid object, an invalid one, nothing, or
\* throws), and with or without an API key, generateBlueprint resolves, never
\* rejects, and resolves to null or to a blueprint that satisfies
\* EmailBlueprintSchema.
C4_GenerateBlueprintResolves ==
    /\ blueprint.state # "rejected"
    /\ renderPc \in {"Render", "Done"}
         => /\ blueprint.state = "resolved"
            /\ \/ blueprint.value = Null
               \/ EmailBlueprintSchema(Val(blueprint.value))

C4_Witness ==
    /\ renderPc = "Render"
    /\ generateCalls = 1
    /\ generation.kind = "throws"
    /\ blueprint = Resolved(Null)

\* the email of a run for payload p in which generateObject throws
CollaboratorThrowsEmail(p) ==
    renderTemplate(p, serviceOptions(generateBlueprintSettle(
                          [kind |-> "throws", object |-> Absent])))

\* C18: AI generation disabled is a silent fallback.  With no API key,
\* generateBlueprint resolves to null and generateObject is never called, and
\* the email the run returns equals the email of a run for the same payload
\* in which the key is set and generateObject throws.
C18_DisabledIsSilentFallback ==
    /\ ~aiKey => generateCalls = 0
    /\ (~aiKey /\ renderPc \in {"Render", "Done"}) => blueprint = Resolved(Null)
    /\ (renderPc = "Done" /\ (~aiKey \/ generation.kind = "throws"))
           => /\ ~rendered.threw
              /\ ~CollaboratorThrowsEmail(payload).threw
              /\ rendered.email = CollaboratorThrowsEmail(payload).value

\* a run without a key whose collaborator would have returned a valid blueprint
C18_Witness ==
    /\ renderPc = "Done"
    /\ ~aiKey
    /\ generation.kind = "object"
    /\ EmailBlueprintSchema(Val(generation.object))
    /\ generateCalls = 0
    /\ rendered.via = "fallback"
    /\ NonEmptyEmail(rendered.email)

\* generateObject was called and returned an object that passes the schema
GenerationSucceeded ==
    /\ aiKey
    /\ generateCalls = 1
    /\ generation.kind = "object"
    /\ EmailBlueprintSchema(Val(generation.object))

\* one step of the pipeline, from its position before to its position after
PipelineStep ==
    /\ renderPc = "BuildContext" => (renderPc' = "AttemptAIGeneration" /\ Has(context'))
    /\ renderPc = "AttemptAIGeneration" => renderPc' \in {"AwaitGenerateObject", "Render"}
    /\ renderPc = "AwaitGenerateObject" => renderPc' = "Render"
    /\ renderPc = "Render" =>
          /\ renderPc' = "Done"
          /\ ~rendered'.threw
          /\ NonEmptyEmail(rendered'.email)
          /\ rendered'.via \in {"blueprint", "fallback"}
          /\ rendered'.via = "blueprint" =>
                /\ GenerationSucceeded
                /\ blueprint = Resolved(safeParse(Val(generation.object)).data)
          /\ ~GenerationSucceeded => rendered'.via = "fallback"
    /\ renderPc = "Done" => FALSE

\* C20: Content pipeline state machine.  Every run of the pipeline, for
\* either kind of payload, builds the context, then attempts the generation,
\* then renders exactly one of the blueprint and the fallback and returns an
\* email; the blueprint is rendered only when it was returned by a
\* generation that succeeded and passed the schema, and every other outcome
\* (failure, invalid, disabled, nothing returned) renders the fallback.
C20_PipelineStateMachine == [][PipelineStep]_renderVars

\* a run that went through generateObject and rendered the validated blueprint
C20_Witness ==
    /\ renderPc = "Done"
    /\ Has(context)
    /\ GenerationSucceeded
    /\ payload.type = "price-drop-alert"
    /\ rendered.via = "blueprint"
    /\ NonEmptyEmail(rendered.email)

-----------------------------------------------------------------------------
(* send-notification.ts: sendNotificationEmail *)

formatRecipient(recipient) ==
    IF Has(recipient.name) /\ StrLen(Val(recipient.name)) > 0
    THEN Val(recipient.name) \o Lit(" <", 2) \o recipient.email \o Lit(">", 1)
    ELSE recipient.email

\* render...EmailWithAI as one call: generateBlueprint, then the template
renderEmailWithAI(p, env) ==
    LET settled == IF env.key THEN generateBlueprintSettle(env.generation)
                   ELSE Resolved(Null)
    IN renderTemplate(p, serviceOptions(settled))

\* buildEmailContent: the switch on payload.type
buildEmailContent(p, env) ==
    IF p.type \in {"daily-price-update", "price-drop-alert"}
    THEN renderEmailWithAI(p, env)
    ELSE Threw

\* process.env.RESEND_FROM_EMAIL ?? "Flight Alerts <alerts@resend.dev>"
fromAddress(env) ==
    IF Has(env.fromEmail) THEN Val(env.fromEmail)
    ELSE Lit("Flight Alerts <alerts@resend.dev>", 33)

(* Inputs *)
RecipientChoices ==
    { [name |-> n, email |-> Lit("ada@example.com", 15)] :
        n \in {Absent, Some(<<>>), Some(Lit("Ada L.", 6))} }

SendPayloadChoices ==
    { DailyPayload("2025-01-01", <<>>),
      DailyPayload("2025-01-01", <<DailySummary(PlainAlert, 1)>>),
      PriceDropPayload(FilteredAlert, 2, Money(210), Money(260)),
      [type |-> "weekly-digest"] }

SendEnvChoices ==
    { [key |-> k, generation |-> g, fromEmail |-> f] :
        k \in BOOLEAN,
        g \in { [kind |-> "throws", object |-> Absent],
                [kind |-> "object", object |-> Some(Candidate(1, <<OverviewSection>>))] },
        f \in {Absent, Some(Lit("Fares <fares@example.com>", 25))} }

\* sendWithResend is a collaborator: it resolves to a result or throws
TransportChoices ==
    { [kind |-> "resolves", result |-> [id |-> "email-1", error |-> "none"]],
      [kind |-> "resolves", result |-> [id |-> "none", error |-> "rate-limited"]],
      [kind |-> "throws", result |-> [id |-> "none", error |-> "network"]] }

SendInit ==
    /\ request \in [payload : SendPayloadChoices, recipient : RecipientChoices]
    /\ sendEnv \in SendEnvChoices
    /\ transport \in TransportChoices
    /\ sendPc = "BuildContent"
    /\ content = <<>>
    /\ transportCalls = <<>>
    /\ sendOutcome = [state |-> "pending", value |-> <<>>]

\* await buildEmailContent(request.payload); a throw rejects the send
BuildContent ==
    /\ sendPc = "BuildContent"
    /\ LET built == buildEmailContent(request.payload, sendEnv)
       IN IF built.threw
          THEN /\ sendOutcome' = [state |-> "rejected",
                                  value |-> <<"Unsupported notification type">>]
               /\ sendPc' = "Done"
               /\ UNCHANGED content
          ELSE /\ content' = <<built.value>>
               /\ sendPc' = "Send"
               /\ UNCHANGED sendOutcome
    /\ UNCHANGED <<request, sendEnv, transport, transportCalls>>
    /\ UNCHANGED <<fetchVars, renderVars, passVars, unitVars, extVars>>

\* sendWithResend({ from, to, subject, html, text }) is called and awaited
CallSendWithResend ==
    /\ sendPc = "Send"
    /\ transportCalls' = Append(transportCalls,
                                [from |-> fromAddress(sendEnv),
                                 to |-> formatRecipient(request.recipient),
                                 subject |-> Val(content).subject,
                                 html |-> Val(content).html,
                                 text |-> Val(content).text])
    /\ sendPc' = "AwaitTransport"
    /\ UNCHANGED <<request, sendEnv, transport, content, sendOutcome>>
    /\ UNCHANGED <<fetchVars, renderVars, passVars, unitVars, extVars>>

\* a dispatcher that calls the transport a second time after a failure
TransportSettles_RetriesOnce ==
    /\ sendPc = "AwaitTransport"
    /\ IF transport.kind = "throws" /\ Len(transportCalls) < 2
       THEN /\ transportCalls' = Append(transportCalls, transportCalls[1])
            /\ UNCHANGED <<sendPc, sendOutcome>>
       ELSE /\ sendOutcome' = [state |-> IF transport.kind = "throws" THEN "rejected"
                                         ELSE "resolved",
                               value |-> <<transport.result>>]
            /\ sendPc' = "Done"
            /\ UNCHANGED transportCalls
    /\ UNCHANGED <<request, sendEnv, transport, content>>
    /\ UNCHANGED <<fetchVars, renderVars, passVars, unitVars, extVars>>

\* the transport settles: `return await` hands its result on, or its
\* exception leaves sendNotificationEmail uncaught
TransportSettles ==
    /\ sendPc = "AwaitTransport"
    /\ sendOutcome' = [state |-> IF transport.kind = "throws" THEN "rejected"
                                 ELSE "resolved",
                       value |-> <<transport.result>>]
    /\ sendPc' = "Done"
    /\ UNCHANGED <<request, sendEnv, transport, content, transportCalls>>
    /\ UNCHANGED <<fetchVars, renderVars, passVars, unitVars, extVars>>

SendNext ==
    \/ BuildContent
    \/ CallSendWithResend
    \/ TransportSettles

-----------------------------------------------------------------------------
(* Properties of the dispatcher (SpecSend) *)

NameAvailable(recipient) == Has(recipient.name) /\ Val(recipient.name) # <<>>

\* C19: The dispatcher adds no retry and passes the transport outcome
\* through.  A call of sendNotificationEmail calls the transport at most
\* once, and exactly once when the content was built; it resolves to the
\* transport's result or rejects with the transport's failure, unchanged; the
\* recipient handed to the transport is "Name <email>" when a display name
\* is available and the bare email otherwise.
C19_NoRetryPassThrough ==
    /\ Len(transportCalls) <= 1
    /\ sendPc = "Done" => (Len(transportCalls) = 1 <=> Has(content))
    /\ (sendPc = "Done" /\ Has(content)) =>
          /\ sendOutcome.value = <<transport.result>>
          /\ sendOutcome.state = "resolved" <=> transport.kind = "resolves"
          /\ sendOutcome.state = "rejected" <=> transport.kind = "throws"
    /\ \A k \in DOMAIN transportCalls :
          /\ transportCalls[k].to =
                 IF NameAvailable(request.recipient)
                 THEN Val(request.recipient.name) \o Lit(" <", 2)
                      \o request.recipient.email \o Lit(">", 1)
                 ELSE request.recipient.email
          /\ transportCalls[k].subject = Val(content).subject
          /\ transportCalls[k].html = Val(content).html
          /\ transportCalls[k].text = Val(content).text

\* a send to a named recipient whose transport threw: one call, rejected
C19_Witness ==
    /\ sendPc = "Done"
    /\ transport.kind = "throws"
    /\ Len(transportCalls) = 1
    /\ sendOutcome.state = "rejected"
    /\ NameAvailable(request.recipient)
    /\ StrLen(transportCalls[1].to) = 6 + 2 + 15 + 1

-----------------------------------------------------------------------------
(* The templates, the context builder and the section renderer called on    *)
(* their own (SpecTemplate)                                                 *)

ChartComponent(id) ==
    [type |-> "chart", id |-> id, title |-> Lit("Price trend", 11),
     summary |-> Lit("Prices fell this week.", 22)]

Card(n) == CardComponent(Num("int", n), Lit("Option", 6) \o Num("int", n))

\* sections whose components mix runs of flight cards with the other types
MixedSections ==
    { <<BlueprintSection(Lit("cards", 5), <<Card(1), Card(2), Card(3)>>)>>,
      <<BlueprintSection(Lit("mix", 3),
            <<Card(1), TextComponent(Lit("t1", 2), Lit("Then:", 5)), Card(2), Card(3),
              BadgeComponent(Lit("b1", 2)), ChartComponent(Lit("ch1", 3)), Card(4)>>),
        BlueprintSection(Lit("tail", 4),
            <<TextComponent(Lit("t2", 2), Lit("More:", 5)), Card(5), Card(1)>>)>>,
      <<BlueprintSection(Lit("empty", 5), <<>>)>>,
      <<DealsSection,
        BlueprintSection(Lit("media", 5), <<Card(1), VideoComponent(Lit("v1", 2))>>)>> }

BlueprintChoices ==
    ValidCandidates \cup InvalidCandidates \cup { Candidate(12, ss) : ss \in MixedSections }

TemplateInit ==
    /\ tplPayload \in PayloadChoices
    /\ tplBlueprint \in BlueprintChoices
    /\ tplEmail = <<>>
    /\ tplContext = <<>>
    /\ tplSections = <<>>

\* render...Email(payload, { blueprint })
RenderWithBlueprint ==
    /\ ~Has(tplEmail)
    /\ tplEmail' = Some(renderTemplate(tplPayload, Some(tplBlueprint)))
    /\ UNCHANGED <<tplPayload, tplBlueprint, tplContext, tplSections>>
    /\ UNCHANGED tplOthers

\* build...BlueprintContext(payload)
BuildBlueprintContext ==
    /\ ~Has(tplContext)
    /\ tplContext' = Some(buildContext(tplPayload))
    /\ UNCHANGED <<tplPayload, tplBlueprint, tplEmail, tplSections>>
    /\ UNCHANGED tplOthers

\* renderSectionsFromBlueprint(blueprint.sections): per section the children
\* and the pending-card buffer at the end of the callback, and the outcome
RenderSections ==
    /\ ~Has(tplSections)
    /\ tplSections' = Some([done |-> [i \in DOMAIN tplBlueprint.sections |->
                                         sectionChildren(tplBlueprint.sections[i])],
                            out |-> renderSectionsFromBlueprint(tplBlueprint.sections)])
    /\ UNCHANGED <<tplPayload, tplBlueprint, tplEmail, tplContext>>
    /\ UNCHANGED tplOthers

TemplateNext ==
    \/ RenderWithBlueprint
    \/ BuildBlueprintContext
    \/ RenderSections

-----------------------------------------------------------------------------
(* Properties of the templates (SpecTemplate) *)

ComponentTypes == {"text", "flight-card", "chart", "badge-row"}

\* rendering blueprint bp raises: one of its components has no renderer
BlueprintRenderRaises(bp) ==
    \E i \in DOMAIN bp.sections :
        \E j \in DOMAIN bp.sections[i].components :
            bp.sections[i].components[j].type \notin ComponentTypes

\* C21: Render falls back when blueprint rendering throws.  For every payload
\* and every blueprint whose rendering raises, the template does not throw
\* and returns the subject, html and text it returns for the same payload
\* with no blueprint.
C21_RenderThrowFallsBack ==
    (Has(tplEmail) /\ BlueprintRenderRaises(tplBlueprint)) =>
        /\ ~Val(tplEmail).threw
        /\ ~NoBlueprintEmail(tplPayload).threw
        /\ Val(tplEmail).value = NoBlueprintEmail(tplPayload).value

\* a daily digest rendered with a blueprint that holds a component of an
\* unsupported type after a supported section
C21_Witness ==
    /\ Has(tplEmail)
    /\ tplPayload.type = "daily-price-update"
    /\ Len(tplPayload.alerts) = 2
    /\ Len(tplBlueprint.sections) = 2
    /\ BlueprintRenderRaises(tplBlueprint)
    /\ ~Val(tplEmail).threw
    /\ NonEmptyEmail(Val(tplEmail).value)

\* the components the children of a rendered section stand for, in order: a
\* grid stands for its cards
ComponentsOf(children) ==
    Flatten([c \in DOMAIN children |->
                IF children[c].type = "grid" THEN children[c].cards
                ELSE <<children[c].component>>])

SupportedSection(section) ==
    \A j \in DOMAIN section.components : section.components[j].type \in ComponentTypes

\* C30: Blueprint section rendering keeps every component once and in order.
\* For every section, renderSectionsFromBlueprint emits the components in
\* blueprint order, merging each maximal run of consecutive flight-card
\* components into a single grid that holds exactly those cards in order; no
\* card is dropped, duplicated or moved across a text, badge-row or chart
\* component, and the pending-card buffer is empty when the section is
\* finished.
C30_SectionKeepsComponents ==
    Has(tplSections) =>
        \A i \in DOMAIN tplBlueprint.sections :
            SupportedSection(tplBlueprint.sections[i]) =>
                LET done == Val(tplSections).done[i]
                    children == done.children
                IN /\ ~done.threw
                   /\ done.pendingCards = <<>>
                   /\ ComponentsOf(children) = tplBlueprint.sections[i].components
                   /\ \A c \in DOMAIN children :
                         IF children[c].type = "grid"
                         THEN /\ Len(children[c].cards) >= 1
                              /\ c > 1 => children[c - 1].type # "grid"
                         ELSE children[c].component.type
                                  \in {"text", "badge-row", "chart"}

\* the section of one card, a text, two cards, a badge row, a chart and one
\* card comes out as grid, text, grid, badge row, chart, grid
C30_Witness ==
    /\ Has(tplSections)
    /\ Len(tplBlueprint.sections) = 2
    /\ Len(tplBlueprint.sections[1].components) = 7
    /\ ~Val(tplSections).out.threw
    /\ LET children == Val(tplSections).done[1].children
       IN /\ Len(children) = 6
          /\ children[1].type = "grid" /\ Len(children[1].cards) = 1
          /\ children[3].type = "grid" /\ Len(children[3].cards) = 2
          /\ children[6].type = "grid"

\* `summaries` are the summaries of the first flights of `flights`, in
\* order, cut at a limit of 4 or 5
BoundedSummaries(summaries, flights) ==
    \E limit \in {4, 5} :
        /\ Len(summaries) = (IF Len(flights) < limit THEN Len(flights) ELSE limit)
        /\ \A j \in DOMAIN summaries : summaries[j] = summarizeFlight(flights[j])

\* C25: Context building bounds the flights sent to the AI prompt at 4 to 5
\* per alert.  For a payload of either kind, each alert's flight summaries in
\* the built context are the summaries of the first flights of that alert's
\* list, in payload order, cut at a limit of 4 or 5.
C25_ContextFlightsBounded ==
    Has(tplContext) =>
        IF tplPayload.type = "daily-price-update"
        THEN /\ Len(Val(tplContext).alerts) = Len(tplPayload.alerts)
             /\ \A i \in DOMAIN tplPayload.alerts :
                   BoundedSummaries(Val(tplContext).alerts[i].flights,
                                    tplPayload.alerts[i].flights)
        ELSE BoundedSummaries(Val(tplContext).flights, tplPayload.flights)

-----------------------------------------------------------------------------
(* ai/planner-agent: the tool loop of an agent made by createPlannerAgent   *)

\* stopWhen: stepCountIs(25)
StopStepCount == 25

\* "Max steps: 15" of the doc comment
DocumentedMaxSteps == 15

PlannerAgentTools == {"searchFlights", "searchDates", "controlScene"}

stepCountIs(n, steps) == steps = n

AgentInit ==
    /\ agentStatus = "running"
    /\ stepCount = 0
    /\ toolCalls = [t \in PlannerAgentTools |-> 0]

\* one step in which the model calls a tool: the loop goes on unless the
\* stop condition holds of the steps made so far
ToolCallStep(tool) ==
    /\ agentStatus = "running"
    /\ stepCount' = stepCount + 1
    /\ toolCalls' = [toolCalls EXCEPT ![tool] = @ + 1]
    /\ agentStatus' = IF stepCountIs(StopStepCount, stepCount') THEN "stopped" ELSE "running"
    /\ UNCHANGED agentOthers

\* one step in which the model answers without a tool call: the loop ends
TextStep ==
    /\ agentStatus = "running"
    /\ stepCount' = stepCount + 1
    /\ agentStatus' = "stopped"
    /\ UNCHANGED toolCalls
    /\ UNCHANGED agentOthers

AgentNext ==
    \/ \E tool \in PlannerAgentTools : ToolCallStep(tool)
    \/ TextStep

\* C26: The planner agent's tool loop terminates within the documented step
\* limit.  Every run of an agent created by createPlannerAgent stops after at
\* most 15 steps.
C26_StepsWithinDocumentedLimit == stepCount <= DocumentedMaxSteps

-----------------------------------------------------------------------------
(* ai/tools/control-scene.ts: controlSceneTool.execute                      *)

\* A date parameter is a string: a calendar date written YYYY-MM-DD, a string
\* of that shape that names no date ("2025-02-30"), a string of another
\* shape, or the empty string.
DateString(day) == [kind |-> "date", day |-> day]
NoSuchDate == [kind |-> "no-such-date", day |-> 0]
Malformed == [kind |-> "malformed", day |-> 0]
EmptyString == [kind |-> "empty", day |-> 0]

\* `!params.x` of a string parameter: undefined or ""
Missing(str) == ~Has(str) \/ Val(str).kind = "empty"

\* /^\d{4}-\d{2}-\d{2}$/.test(str)
dateRegexTest(str) == str.kind \in {"date", "no-such-date"}

\* Number.isNaN(parseISO(str).getTime())
parseISOIsNaN(str) == str.kind # "date"

codeLength(code) ==
    CASE code = "SF" -> 2
      [] code = "SFOX" -> 4
      [] OTHER -> 3

Failure(message) == [success |-> FALSE, message |-> message, scene |-> Absent]
Success(message, scene) == [success |-> TRUE, message |-> message, scene |-> Some(scene)]

\* PlannerSearchSceneSchema.parse(scene) succeeds
PlannerSearchSceneSchema(scene) ==
    Has(scene.data.airlines) =>
        \A k \in DOMAIN Val(scene.data.airlines) : codeLength(Val(scene.data.airlines)[k]) = 2

\* the date checks with the start-in-the-past check left out
validateDates_NoPastCheck(params, todayDay) ==
    LET startDate == Val(params.startDate)
        endDate == Val(params.endDate)
    IN IF parseISOIsNaN(startDate) \/ parseISOIsNaN(endDate) THEN "Invalid dates provided"
       ELSE IF endDate.day > todayDay + SceneYear THEN "End date more than 1 year from now"
       ELSE IF startDate.day > endDate.day THEN "Start date after end date"
       ELSE IF ~Missing(params.travelDate)
            THEN LET travelDate == Val(params.travelDate)
                 IN IF parseISOIsNaN(travelDate) THEN "Invalid travel date"
                    ELSE IF travelDate.day < startDate.day \/ travelDate.day > endDate.day
                         THEN "Travel date outside the date range"
                         ELSE "ok"
            ELSE "ok"

\* the try block of lines 167-225: "ok" or the message of the failure returned
validateDates(params, todayDay) ==
    LET startDate == Val(params.startDate)
        endDate == Val(params.endDate)
    IN IF parseISOIsNaN(startDate) \/ parseISOIsNaN(endDate) THEN "Invalid dates provided"
       ELSE IF startDate.day < todayDay THEN "Start date in the past"
       ELSE IF endDate.day > todayDay + SceneYear THEN "End date more than 1 year from now"
       ELSE IF startDate.day > endDate.day THEN "Start date after end date"
       ELSE IF ~Missing(params.travelDate)
            THEN LET travelDate == Val(params.travelDate)
                 IN IF parseISOIsNaN(travelDate) THEN "Invalid travel date"
                    ELSE IF travelDate.day < startDate.day \/ travelDate.day > endDate.day
                         THEN "Travel date outside the date range"
                         ELSE "ok"
            ELSE "ok"

executeMap(params) ==
    LET mode == IF Has(params.mode) THEN Val(params.mode) ELSE "popular"
    IN IF mode = "popular"
       THEN Success("Displaying popular flight routes map",
                    [view |-> "map", mode |-> "popular", data |-> Absent])
       ELSE IF ~Has(params.airports) \/ Len(Val(params.airports)) = 0
       THEN Failure("Routes mode requires at least one airport code")
       ELSE IF \E k \in DOMAIN Val(params.airports) : codeLength(Val(params.airports)[k]) # 3
       THEN Failure("Invalid airport codes")
       ELSE Success("Displaying routes",
                    [view |-> "map", mode |-> "routes",
                     data |-> Some([airports |-> Val(params.airports)])])

executeSearch(params, todayDay) ==
    IF \/ ~Has(params.origin) \/ ~Has(params.destination)
       \/ Missing(params.startDate) \/ Missing(params.endDate)
    THEN Failure("Search view requires")
    ELSE IF \/ ~dateRegexTest(Val(params.startDate))
            \/ ~dateRegexTest(Val(params.endDate))
            \/ (~Missing(params.travelDate) /\ ~dateRegexTest(Val(params.travelDate)))
    THEN Failure("Invalid date format")
    ELSE LET checked == validateDates(params, todayDay)
             scene == [view |-> "search", mode |-> "flights",
                       data |-> [origin |-> Val(params.origin),
                                 destination |-> Val(params.destination),
                                 startDate |-> Val(params.startDate),
                                 endDate |-> Val(params.endDate),
                                 travelDate |-> IF Missing(params.travelDate) THEN Absent
                                                ELSE params.travelDate,
                                 airlines |-> params.airlines]]
         IN IF checked # "ok" THEN Failure(checked)
            ELSE IF ~PlannerSearchSceneSchema(scene)
            THEN Failure("Invalid search scene configuration")
            ELSE Success("Displaying search", scene)

\* execute: the whole body is inside try { ... } catch { return failure }
execute(params, todayDay) ==
    Returned(IF params.view = "map" THEN executeMap(params)
             ELSE executeSearch(params, todayDay))

(* Inputs *)
NoParams ==
    [view |-> "map", mode |-> Absent, airports |-> Absent, origin |-> Absent,
     destination |-> Absent, startDate |-> Absent, endDate |-> Absent,
     travelDate |-> Absent, airlines |-> Absent]

SceneDayChoices == 1..(2 + SceneYear + 1)

SceneDateChoices ==
    {Absent, Some(NoSuchDate), Some(Malformed), Some(EmptyString)}
    \cup {Some(DateString(d)) : d \in SceneDayChoices}

MapParamChoices ==
    { [NoParams EXCEPT !.mode = m, !.airports = a] :
        m \in {Absent, Some("popular"), Some("routes")},
        a \in {Absent, Some(<<>>), Some(<<"SFO", "HNL">>), Some(<<"SFO", "SF">>),
               Some(<<"SFOX">>)} }

SearchParamChoices ==
    { [NoParams EXCEPT !.view = "search", !.origin = o, !.destination = Some(<<"JFK">>),
                       !.startDate = sd, !.endDate = ed, !.travelDate = td,
                       !.airlines = al] :
        o \in {Absent, Some(<<"SFO">>)},
        sd \in SceneDateChoices, ed \in SceneDateChoices, td \in SceneDateChoices,
        al \in {Absent, Some(<<"UA">>), Some(<<"UAL">>)} }

SceneInit ==
    /\ sceneToday = 2
    /\ sceneParams \in MapParamChoices \cup SearchParamChoices
    /\ sceneResult = <<>>

Execute ==
    /\ ~Has(sceneResult)
    /\ sceneResult' = Some(execute(sceneParams, sceneToday))
    /\ UNCHANGED <<sceneToday, sceneParams>>
    /\ UNCHANGED sceneOthers

SceneNext == Execute

-----------------------------------------------------------------------------
(* scripts/generate-email-to-user.ts: one run of main over the alert table  *)

DEDUPLICATION_HOURS == 23

\* alerts-db: getAlertsByUser(userId, status), ordered by createdAt
getAlertsByUser(table, status) == SelectSeq(table, LAMBDA row : row.status = status)

\* alerts-db: updateAlert(alertId, updates)
updateAlert(table, alertId, fields) ==
    [i \in DOMAIN table |->
        IF table[i].id = alertId THEN [table[i] EXCEPT !.status = fields.status]
        ELSE table[i]]

\* a partition that expires an alert only strictly after its alertEnd
isExpired_Strict(alert, nowT) == Has(alert.alertEnd) /\ Val(alert.alertEnd) < nowT

\* the `if (alert.alertEnd) { ... endDate <= now ... }` test of the partition loop
isExpired(alert, nowT) == Has(alert.alertEnd) /\ Val(alert.alertEnd) <= nowT

partitionExpired(list, nowT) == SelectSeq(list, LAMBDA a : isExpired(a, nowT))
partitionActive(list, nowT) == SelectSeq(list, LAMBDA a : ~isExpired(a, nowT))

\* an update that soft-deletes the expired alert
expiredStatusUpdate_Deleted == [status |-> "deleted"]

\* the updates object handed to updateAlert for an expired alert
expiredStatusUpdate == [status |-> "completed"]

\* notifications-db: hasAlertBeenProcessedRecently(alertId, hours), evaluated
\* at clock reading t: a notification for the alert within the last `hours`
hasAlertBeenProcessedRecently(log, alertId, hours, t) ==
    \E e \in log : e.alertId = alertId /\ e.at >= t - hours

Ids(list) == {list[i].id : i \in DOMAIN list}

\* a join that keeps every alert
filterUnprocessedJoin_KeepAll(list, processed, order) == list

\* results collected in the order the checks settled
filterUnprocessedJoin_CompletionOrder(list, processed, order) ==
    LET kept == SelectSeq(order, LAMBDA id : ~processed[id].processed)
    IN [k \in DOMAIN kept |-> CHOOSE a \in Range(list) : a.id = kept[k]]

\* results.filter((r) => !r.processed).map((r) => r.alert) over the array
\* Promise.all resolved to, which is in the order of `alerts`
filterUnprocessedJoin(list, processed, order) ==
    SelectSeq(list, LAMBDA a : ~processed[a.id].processed)

\* formatAlertsForEmail + payload construction
buildEmailPayload(withFlights) ==
    [type |-> "daily-price-update", alerts |-> [i \in DOMAIN withFlights |-> withFlights[i].id]]

(* Inputs *)
Row(type, status, alertEnd) == [type |-> type, status |-> status, alertEnd |-> alertEnd]

RowCases ==
    { Row("daily", "active", Absent),
      Row("daily", "active", Some(11)),
      Row("daily", "active", Some(100)),
      Row("price-drop", "active", Absent),
      Row("daily", "completed", Some(0)) }

TickChoices == {11, 12}

NoLocals ==
    /\ runStart' = clock
    /\ now' = 0
    /\ dailyAlerts' = <<>>
    /\ activeAlerts' = <<>>
    /\ expiredAlerts' = <<>>
    /\ updates' = <<>>
    /\ nonExpiredAlerts' = <<>>
    /\ dedup' = <<>>
    /\ dedupAt' = <<>>
    /\ completionOrder' = <<>>
    /\ alertsToProcess' = <<>>
    /\ alertsWithFlights' = <<>>
    /\ emailPayload' = <<>>

PassInit ==
    /\ clock = 0
    /\ \E rows \in SeqsUpTo(RowCases, MaxStoredAlerts) :
          store = [i \in DOMAIN rows |->
                      [id |-> i, type |-> rows[i].type, status |-> rows[i].status,
                       alertEnd |-> rows[i].alertEnd]]
    /\ notificationLog = {}
    /\ passPc = "Idle"
    /\ runStart = 0
    /\ now = 0
    /\ dailyAlerts = <<>>
    /\ activeAlerts = <<>>
    /\ expiredAlerts = <<>>
    /\ updates = <<>>
    /\ nonExpiredAlerts = <<>>
    /\ dedup = <<>>
    /\ dedupAt = <<>>
    /\ completionOrder = <<>>
    /\ alertsToProcess = <<>>
    /\ alertsWithFlights = <<>>
    /\ emailPayload = <<>>
    /\ statusWrites = {}

\* time passes
Tick(d) ==
    /\ clock + d <= MaxClock
    /\ clock' = clock + d
    /\ UNCHANGED <<store, notificationLog, passPc, runStart, now, dailyAlerts,
                   activeAlerts, expiredAlerts, updates, nonExpiredAlerts, dedup, dedupAt,
                   completionOrder, alertsToProcess, alertsWithFlights, emailPayload,
                   statusWrites>>
    /\ UNCHANGED <<fetchVars, renderVars, unitVars, sendVars, extVars>>

\* main, step 3: getAlertsByUser(userId, "active") and the DAILY filter
StartRun ==
    /\ passPc = "Idle"
    /\ runStart' = clock
    /\ dailyAlerts' = SelectSeq(getAlertsByUser(store, "active"),
                                LAMBDA a : a.type = "daily")
    /\ passPc' = IF Len(dailyAlerts') = 0 THEN "Exit0" ELSE "FilterExpired"
    /\ UNCHANGED <<clock, store, notificationLog, now, activeAlerts, expiredAlerts,
                   updates, nonExpiredAlerts, dedup, dedupAt, completionOrder,
                   alertsToProcess, alertsWithFlights, emailPayload, statusWrites>>
    /\ UNCHANGED <<fetchVars, renderVars, unitVars, sendVars, extVars>>

\* filterAndUpdateExpiredAlerts up to its await: reads now, partitions, and
\* issues one updateAlert per expired alert; returns at once when none expired
FilterAndUpdateExpiredAlerts ==
    /\ passPc = "FilterExpired"
    /\ now' = clock
    /\ activeAlerts' = partitionActive(dailyAlerts, now')
    /\ expiredAlerts' = partitionExpired(dailyAlerts, now')
    /\ IF Len(expiredAlerts') > 0
       THEN /\ updates' = [id \in Ids(expiredAlerts') |-> "pending"]
            /\ passPc' = "AwaitUpdates"
            /\ UNCHANGED nonExpiredAlerts
       ELSE /\ updates' = <<>>
            /\ nonExpiredAlerts' = activeAlerts'
            /\ passPc' = IF Len(activeAlerts') = 0 THEN "Exit0" ELSE "FilterUnprocessed"
    /\ UNCHANGED <<clock, store, notificationLog, runStart, dailyAlerts, dedup, dedupAt,
                   completionOrder, alertsToProcess, alertsWithFlights, emailPayload,
                   statusWrites>>
    /\ UNCHANGED <<fetchVars, renderVars, unitVars, sendVars, extVars>>

\* one issued update reaches the store; it may do so after the run has died
UpdateAlertSucceeds(id) ==
    /\ passPc \in {"AwaitUpdates", "Exit1"}
    /\ id \in DOMAIN updates
    /\ updates[id] = "pending"
    /\ store' = updateAlert(store, id, expiredStatusUpdate)
    /\ statusWrites' = statusWrites \cup
           {[id |-> id, from |-> store[id].status, to |-> store'[id].status]}
    /\ updates' = [updates EXCEPT ![id] = "done"]
    /\ UNCHANGED <<clock, notificationLog, passPc, runStart, now, dailyAlerts,
                   activeAlerts, expiredAlerts, nonExpiredAlerts, dedup, dedupAt,
                   completionOrder, alertsToProcess, alertsWithFlights, emailPayload>>
    /\ UNCHANGED <<fetchVars, renderVars, unitVars, sendVars, extVars>>

\* one issued update throws
UpdateAlertThrows(id) ==
    /\ passPc = "AwaitUpdates"
    /\ id \in DOMAIN updates
    /\ updates[id] = "pending"
    /\ updates' = [updates EXCEPT ![id] = "failed"]
    /\ UNCHANGED <<clock, store, notificationLog, passPc, runStart, now, dailyAlerts,
                   activeAlerts, expiredAlerts, nonExpiredAlerts, dedup, dedupAt,
                   completionOrder, alertsToProcess, alertsWithFlights, emailPayload,
                   statusWrites>>
    /\ UNCHANGED <<fetchVars, renderVars, unitVars, sendVars, extVars>>

\* Promise.all over the updates rejects with the first failure; nothing
\* catches it before main's catch block, which calls process.exit(1)
UpdatesRejected ==
    /\ passPc = "AwaitUpdates"
    /\ \E id \in DOMAIN updates : updates[id] = "failed"
    /\ passPc' = "Exit1"
    /\ UNCHANGED <<clock, store, notificationLog, runStart, now, dailyAlerts,
                   activeAlerts, expiredAlerts, updates, nonExpiredAlerts, dedup, dedupAt,
                   completionOrder, alertsToProcess, alertsWithFlights, emailPayload,
                   statusWrites>>
    /\ UNCHANGED <<fetchVars, renderVars, unitVars, sendVars, extVars>>

\* Promise.all over the updates resolves; `return activeAlerts`, main step 4
UpdatesResolved ==
    /\ passPc = "AwaitUpdates"
    /\ \A id \in DOMAIN updates : updates[id] = "done"
    /\ nonExpiredAlerts' = activeAlerts
    /\ passPc' = IF Len(activeAlerts) = 0 THEN "Exit0" ELSE "FilterUnprocessed"
    /\ UNCHANGED <<clock, store, notificationLog, runStart, now, dailyAlerts,
                   activeAlerts, expiredAlerts, updates, dedup, dedupAt,
                   completionOrder, alertsToProcess, alertsWithFlights, emailPayload,
                   statusWrites>>
    /\ UNCHANGED <<fetchVars, renderVars, unitVars, sendVars, extVars>>

\* filterUnprocessedAlerts up to its await: one check issued per alert
FilterUnprocessedAlerts ==
    /\ passPc = "FilterUnprocessed"
    /\ dedup' = [id \in Ids(nonExpiredAlerts) |-> [state |-> "pending", processed |-> FALSE]]
    /\ dedupAt' = [id \in Ids(nonExpiredAlerts) |-> clock]
    /\ completionOrder' = <<>>
    /\ passPc' = "AwaitDedup"
    /\ UNCHANGED <<clock, store, notificationLog, runStart, now, dailyAlerts,
                   activeAlerts, expiredAlerts, updates, nonExpiredAlerts,
                   alertsToProcess, alertsWithFlights, emailPayload, statusWrites>>
    /\ UNCHANGED <<fetchVars, renderVars, unitVars, sendVars, extVars>>

\* one hasAlertBeenProcessedRecently call settles with its answer
DedupSettles(id) ==
    /\ passPc = "AwaitDedup"
    /\ id \in DOMAIN dedup
    /\ dedup[id].state = "pending"
    /\ dedup' = [dedup EXCEPT ![id] =
                    [state |-> "settled",
                     processed |-> hasAlertBeenProcessedRecently(notificationLog, id,
                                                                 DEDUPLICATION_HOURS, clock)]]
    /\ dedupAt' = [dedupAt EXCEPT ![id] = clock]
    /\ completionOrder' = Append(completionOrder, id)
    /\ UNCHANGED <<clock, store, notificationLog, passPc, runStart, now, dailyAlerts,
                   activeAlerts, expiredAlerts, updates, nonExpiredAlerts,
                   alertsToProcess, alertsWithFlights, emailPayload, statusWrites>>
    /\ UNCHANGED <<fetchVars, renderVars, unitVars, sendVars, extVars>>

\* one hasAlertBeenProcessedRecently call throws
DedupThrows(id) ==
    /\ passPc = "AwaitDedup"
    /\ id \in DOMAIN dedup
    /\ dedup[id].state = "pending"
    /\ dedup' = [dedup EXCEPT ![id] = [state |-> "failed", processed |-> FALSE]]
    /\ dedupAt' = [dedupAt EXCEPT ![id] = clock]
    /\ completionOrder' = Append(completionOrder, id)
    /\ UNCHANGED <<clock, store, notificationLog, passPc, runStart, now, dailyAlerts,
                   activeAlerts, expiredAlerts, updates, nonExpiredAlerts,
                   alertsToProcess, alertsWithFlights, emailPayload, statusWrites>>
    /\ UNCHANGED <<fetchVars, renderVars, unitVars, sendVars, extVars>>

\* Promise.all over the checks rejects with the first failure: process.exit(1)
DedupRejected ==
    /\ passPc = "AwaitDedup"
    /\ \E id \in DOMAIN dedup : dedup[id].state = "failed"
    /\ passPc' = "Exit1"
    /\ UNCHANGED <<clock, store, notificationLog, runStart, now, dailyAlerts,
                   activeAlerts, expiredAlerts, updates, nonExpiredAlerts, dedup, dedupAt,
                   completionOrder, alertsToProcess, alertsWithFlights, emailPayload,
                   statusWrites>>
    /\ UNCHANGED <<fetchVars, renderVars, unitVars, sendVars, extVars>>

\* Promise.all over the checks resolves; the filter, main step 5
DedupResolved ==
    /\ passPc = "AwaitDedup"
    /\ \A id \in DOMAIN dedup : dedup[id].state = "settled"
    /\ alertsToProcess' = filterUnprocessedJoin(nonExpiredAlerts, dedup, completionOrder)
    /\ passPc' = IF Len(alertsToProcess') = 0 THEN "Exit0" ELSE "FetchFlights"
    /\ UNCHANGED <<clock, store, notificationLog, runStart, now, dailyAlerts,
                   activeAlerts, expiredAlerts, updates, nonExpiredAlerts, dedup, dedupAt,
                   completionOrder, alertsWithFlights, emailPayload, statusWrites>>
    /\ UNCHANGED <<fetchVars, renderVars, unitVars, sendVars, extVars>>

\* main step 6: fetchFlightDataVerbose keeps, in order, the alerts for which
\* the search found matching flights
FetchFlightData ==
    /\ passPc = "FetchFlights"
    /\ \E found \in SUBSET Ids(alertsToProcess) :
          alertsWithFlights' = SelectSeq(alertsToProcess, LAMBDA a : a.id \in found)
    /\ passPc' = IF Len(alertsWithFlights') = 0 THEN "Exit0" ELSE "BuildPayload"
    /\ UNCHANGED <<clock, store, notificationLog, runStart, now, dailyAlerts,
                   activeAlerts, expiredAlerts, updates, nonExpiredAlerts, dedup, dedupAt,
                   completionOrder, alertsToProcess, emailPayload, statusWrites>>
    /\ UNCHANGED <<fetchVars, renderVars, unitVars, sendVars, extVars>>

\* main steps 7-8: the email payload
BuildPayload ==
    /\ passPc = "BuildPayload"
    /\ emailPayload' = <<buildEmailPayload(alertsWithFlights)>>
    /\ passPc' = "Done"
    /\ UNCHANGED <<clock, store, notificationLog, runStart, now, dailyAlerts,
                   activeAlerts, expiredAlerts, updates, nonExpiredAlerts, dedup, dedupAt,
                   completionOrder, alertsToProcess, alertsWithFlights, statusWrites>>
    /\ UNCHANGED <<fetchVars, renderVars, unitVars, sendVars, extVars>>

\* the payload is sent and the persistence collaborator records, per alert of
\* the payload, that the alert produced a notification now; the run ends
RecordNotifications ==
    /\ passPc = "Done"
    /\ notificationLog' = notificationLog \cup
           {[alertId |-> Val(emailPayload).alerts[i], at |-> clock] :
               i \in DOMAIN Val(emailPayload).alerts}
    /\ passPc' = "Idle"
    /\ NoLocals
    /\ UNCHANGED <<clock, store, statusWrites>>
    /\ UNCHANGED <<fetchVars, renderVars, unitVars, sendVars, extVars>>

\* the run ends without sending: process.exit, or the script's dry run
ExitRun ==
    /\ passPc \in {"Exit0", "Exit1", "Done"}
    /\ passPc' = "Idle"
    /\ NoLocals
    /\ UNCHANGED <<clock, store, notificationLog, statusWrites>>
    /\ UNCHANGED <<fetchVars, renderVars, unitVars, sendVars, extVars>>

PassNext ==
    \/ \E d \in TickChoices : Tick(d)
    \/ StartRun
    \/ FilterAndUpdateExpiredAlerts
    \/ \E id \in 1..(MaxStoredAlerts + 1) : UpdateAlertSucceeds(id)
    \/ \E id \in 1..(MaxStoredAlerts + 1) : UpdateAlertThrows(id)
    \/ UpdatesRejected
    \/ UpdatesResolved
    \/ FilterUnprocessedAlerts
    \/ \E id \in 1..(MaxStoredAlerts + 1) : DedupSettles(id)
    \/ \E id \in 1..(MaxStoredAlerts + 1) : DedupThrows(id)
    \/ DedupRejected
    \/ DedupResolved
    \/ FetchFlightData
    \/ BuildPayload
    \/ RecordNotifications
    \/ ExitRun

-----------------------------------------------------------------------------
(* Properties of the processing pass (SpecPass) *)

Selected(id) == id \in Ids(alertsToProcess)

\* the dedup join of this run has resolved
DedupJoined ==
    /\ passPc \notin {"Idle", "AwaitDedup"}
    /\ DOMAIN dedup # {}
    /\ \A id \in DOMAIN dedup : dedup[id].state = "settled"

C6_DedupEnforcement ==
    DedupJoined =>
        /\ alertsToProcess =
              SelectSeq(nonExpiredAlerts, LAMBDA a : ~dedup[a.id].processed)
        /\ \A i, j \in DOMAIN alertsToProcess :
              alertsToProcess[i].id = alertsToProcess[j].id => i = j

C6_Witness ==
    /\ DedupJoined
    /\ Len(nonExpiredAlerts) = 2
    /\ completionOrder = <<nonExpiredAlerts[2].id, nonExpiredAlerts[1].id>>
    /\ alertsToProcess = nonExpiredAlerts

\* some dedup check of this run threw
DedupCheckFailed == \E id \in DOMAIN dedup : dedup[id].state = "failed"

\* C23: The dedup-check join tolerates individual failures.  When
\* hasAlertBeenProcessedRecently throws for one alert, the pass is not
\* aborted, and once every check has finished filterUnprocessedAlerts returns,
\* in input order, the alerts whose check answered false, the failing alert
\* left out.
C23_DedupJoinTolerant ==
    DedupCheckFailed =>
        /\ passPc # "Exit1"
        /\ passPc # "AwaitDedup" =>
              alertsToProcess =
                  SelectSeq(nonExpiredAlerts,
                            LAMBDA a : /\ dedup[a.id].state = "settled"
                                       /\ ~dedup[a.id].processed)

StatusStepOneWay ==
    /\ Len(store') = Len(store)
    /\ \A i \in DOMAIN store :
          /\ store'[i].id = store[i].id
          /\ store'[i].status # store[i].status
                => store[i].status = "active" /\ store'[i].status = "completed"

\* C7: Alert lifecycle is one-way.  Across any sequence of runs, every status
\* write this subsystem issues takes an alert from active to completed; a
\* completed alert is never set back to active and no alert row is removed
\* or marked deleted.
C7_LifecycleOneWay ==
    /\ [](\A w \in statusWrites : w.from = "active" /\ w.to = "completed")
    /\ [][StatusStepOneWay]_vars

C7_Witness ==
    /\ passPc = "FilterExpired"
    /\ \E w \in statusWrites :
          /\ store[w.id].status = "completed"
          /\ w.id \notin Ids(dailyAlerts)

\* the alert's alertEnd is at or before t
EndedBy(alert, t) == Has(alert.alertEnd) /\ Val(alert.alertEnd) <= t

PartitionDone == passPc \notin {"Idle", "FilterExpired"} /\ Len(dailyAlerts) > 0

HandedOn ==
    Ids(nonExpiredAlerts) \cup DOMAIN dedup \cup Ids(alertsToProcess)
    \cup Ids(alertsWithFlights)
    \cup (IF Has(emailPayload) THEN Range(Val(emailPayload).alerts) ELSE {})

\* C8: No expired alert is processed.  In every run, an alert whose alertEnd
\* is at or before the run's now is never handed to the dedup check, the
\* flight search or the email payload, and once the status updates of the
\* run have all succeeded every such alert has status completed.
C8_NoExpiredProcessed ==
    PartitionDone =>
        \A i \in DOMAIN dailyAlerts :
            EndedBy(dailyAlerts[i], now) =>
                /\ dailyAlerts[i].id \notin HandedOn
                /\ (\A id \in DOMAIN updates : updates[id] = "done")
                      => store[dailyAlerts[i].id].status = "completed"

C8_Witness ==
    /\ passPc = "Done"
    /\ \E i \in DOMAIN dailyAlerts :
          /\ Has(dailyAlerts[i].alertEnd)
          /\ Val(dailyAlerts[i].alertEnd) = now
          /\ store[dailyAlerts[i].id].status = "completed"
    /\ Has(emailPayload)

\* C9: Expiry partition.  The partition places an alert in expired exactly
\* when its alertEnd is strictly before now and in active otherwise, so an
\* alert whose alertEnd equals now, and every alert without alertEnd, is
\* active; every input alert lands in exactly one of the two groups.
C9_ExpiryPartition ==
    PartitionDone =>
        /\ expiredAlerts =
              SelectSeq(dailyAlerts,
                        LAMBDA a : Has(a.alertEnd) /\ Val(a.alertEnd) < now)
        /\ activeAlerts =
              SelectSeq(dailyAlerts,
                        LAMBDA a : ~(Has(a.alertEnd) /\ Val(a.alertEnd) < now))

\* C10: Marking expired alerts is best-effort.  When the status update
\* throws for some expired alert, the updates for the other expired alerts
\* are still issued, the run is not aborted, and the list of active alerts
\* handed to the rest of the run is the one returned when no update fails.
C10_MarkExpiredBestEffort ==
    (\E id \in DOMAIN updates : updates[id] = "failed") =>
        /\ DOMAIN updates = Ids(expiredAlerts)
        /\ passPc # "Exit1"
        /\ passPc # "AwaitUpdates" => nonExpiredAlerts = activeAlerts

-----------------------------------------------------------------------------
(* Specifications *)

FetchIdle ==
    /\ tz = 0
    /\ today = 0
    /\ maxFlights = 0
    /\ alerts = <<>>
    /\ collaborator = <<>>
    /\ fetchPromises = <<>>
    /\ results = <<>>
    /\ searchCalls = {}
    /\ batch = "idle"
    /\ successfulResults = <<>>
    /\ settleOrder = <<>>
    /\ failureLog = {}

RenderIdle ==
    /\ payload = <<>>
    /\ aiKey = FALSE
    /\ generation = <<>>
    /\ renderPc = "Idle"
    /\ context = <<>>
    /\ generateCalls = 0
    /\ blueprint = <<>>
    /\ rendered = <<>>

PassIdle ==
    /\ clock = 0
    /\ store = <<>>
    /\ notificationLog = {}
    /\ passPc = "Idle"
    /\ runStart = 0
    /\ now = 0
    /\ dailyAlerts = <<>>
    /\ activeAlerts = <<>>
    /\ expiredAlerts = <<>>
    /\ updates = <<>>
    /\ nonExpiredAlerts = <<>>
    /\ dedup = <<>>
    /\ dedupAt = <<>>
    /\ completionOrder = <<>>
    /\ alertsToProcess = <<>>
    /\ alertsWithFlights = <<>>
    /\ emailPayload = <<>>
    /\ statusWrites = {}

UnitIdle ==
    /\ zone = 0
    /\ systemDay = 0
    /\ inputFilters = <<>>
    /\ inputFlights = <<>>
    /\ translations = <<>>
    /\ filterResult = <<>>

SendIdle ==
    /\ request = <<>>
    /\ sendEnv = <<>>
    /\ transport = <<>>
    /\ sendPc = "Idle"
    /\ content = <<>>
    /\ transportCalls = <<>>
    /\ sendOutcome = <<>>

TemplateIdle ==
    /\ tplPayload = <<>>
    /\ tplBlueprint = <<>>
    /\ tplEmail = <<>>
    /\ tplContext = <<>>
    /\ tplSections = <<>>

CoreIdle == FetchIdle /\ RenderIdle /\ PassIdle /\ UnitIdle /\ SendIdle

AgentIdle ==
    /\ agentStatus = "idle"
    /\ stepCount = 0
    /\ toolCalls = <<>>

SceneIdle ==
    /\ sceneToday = 0
    /\ sceneParams = <<>>
    /\ sceneResult = <<>>

TesterIdle == verboseResults = <<>>

ExtIdle == TemplateIdle /\ AgentIdle /\ SceneIdle /\ TesterIdle

InitFetch == FetchInit /\ RenderIdle /\ PassIdle /\ UnitIdle /\ SendIdle /\ ExtIdle

SpecFetch == InitFetch /\ [][FetchNext]_vars

InitRender == RenderInit /\ FetchIdle /\ PassIdle /\ UnitIdle /\ SendIdle /\ ExtIdle

SpecRender == InitRender /\ [][RenderNext]_vars

InitPass == PassInit /\ FetchIdle /\ RenderIdle /\ UnitIdle /\ SendIdle /\ ExtIdle

SpecPass == InitPass /\ [][PassNext]_vars

InitTranslate == TranslateInit /\ FetchIdle /\ RenderIdle /\ PassIdle /\ SendIdle /\ ExtIdle

SpecTranslate == InitTranslate /\ [][TranslateNext]_vars

InitSend == SendInit /\ FetchIdle /\ RenderIdle /\ PassIdle /\ UnitIdle /\ ExtIdle

SpecSend == InitSend /\ [][SendNext]_vars

InitTemplate == TemplateInit /\ CoreIdle /\ AgentIdle /\ SceneIdle /\ TesterIdle

SpecTemplate == InitTemplate /\ [][TemplateNext]_vars

InitAgent == AgentInit /\ CoreIdle /\ TemplateIdle /\ SceneIdle /\ TesterIdle

SpecAgent == InitAgent /\ [][AgentNext]_vars

InitScene == SceneInit /\ CoreIdle /\ TemplateIdle /\ AgentIdle /\ TesterIdle

SpecScene == InitScene /\ [][SceneNext]_vars

InitTester ==
    /\ TesterInit
    /\ RenderIdle /\ PassIdle /\ UnitIdle /\ SendIdle
    /\ TemplateIdle /\ AgentIdle /\ SceneIdle

SpecTester == InitTester /\ [][TesterNext]_vars

====
